---- MODULE Spec2Model ----
(***************************************************************************)
(* Model of the MCP server core of loco: the JSON-RPC envelope             *)
(* (src/src/mcp/types.rs), the tool registry (src/src/mcp/tools.rs), the   *)
(* protocol handler (src/src/mcp/protocol.rs) and the registration entry   *)
(* point of the server (src/src/mcp/server.rs).                            *)
(*                                                                         *)
(* Strings that the code takes apart (argument texts, expressions) are     *)
(* sequences of one-character strings; names used only as keys are plain   *)
(* strings; formatted messages are sequences of their fragments.           *)
(***************************************************************************)
EXTENDS Integers, Sequences, FiniteSets, TLC

(***************************************************************************)
(* Bounds of the model.                                                    *)
(***************************************************************************)
NumHandlers == 2

NumRegistrars == 2

TickSecs == 10

\* the clients of the WebSocket endpoint, and the most frames one has
NumWsClients == 2

MaxFrames == 2

\* CacheConfig of the cache followed, and the most put and get calls made
MaxEntries == 2

MaxTemplateSize == 2

MaxPuts == 3

MaxGets == 2

\* the most events added to the aggregate followed, and the most
\* increments of its version
MaxEvents == 3

MaxVersion == 3

\* the builder's lists of custom tools, resources and prompts hold up to
\* MaxCustom entries each
MaxCustom == 2

\* callers of TemplateCache::put running side by side
NumPutters == 2

(***************************************************************************)
(* Program constants.                                                      *)
(***************************************************************************)
DefaultTimeoutSecs == 30

CalculateTimeoutSecs == 10

PARSE_ERROR == -32700

INVALID_REQUEST == -32600

METHOD_NOT_FOUND == -32601

INVALID_PARAMS == -32602

INTERNAL_ERROR == -32603

SupportedProtocolVersionLegacy == "1.0.0"

SupportedProtocolVersion == "2024-11-05"

(***************************************************************************)
(* Option<T> and Result<T>.                                                *)
(***************************************************************************)
None == <<>>

Some(x) == <<x>>

Ok(v) == [ok |-> TRUE, val |-> v]

Err(e) == [ok |-> FALSE, err |-> e]

(***************************************************************************)
(* RequestId: String(String) | Number(u64) | Null.                         *)
(***************************************************************************)
IdString(s) == [kind |-> "String", s |-> s, n |-> 0]

IdNumber(n) == [kind |-> "Number", s |-> "", n |-> n]

IdNull == [kind |-> "Null", s |-> "", n |-> 0]

RequestIds == {IdNull, IdString("req-a"), IdNumber(7)}

(***************************************************************************)
(* serde_json::Value, as far as the tools look at it.                      *)
(***************************************************************************)
JString(cs) == [t |-> "string", s |-> cs, b |-> FALSE, n |-> 0]

JBool(b) == [t |-> "bool", s |-> <<>>, b |-> b, n |-> 0]

JNumber(n) == [t |-> "number", s |-> <<>>, b |-> FALSE, n |-> n]

EmptyObject == [tag |-> "object"]

(***************************************************************************)
(* McpError and McpResponse constructors.                                  *)
(***************************************************************************)
McpErrorNew(code, message) == [code |-> code, message |-> message, data |-> None]

parse_error(message) == McpErrorNew(PARSE_ERROR, message)

invalid_request(message) == McpErrorNew(INVALID_REQUEST, message)

method_not_found_as_invalid_request(message) == McpErrorNew(INVALID_REQUEST, message)

method_not_found(message) == McpErrorNew(METHOD_NOT_FOUND, message)

invalid_params_as_internal(message) == McpErrorNew(INTERNAL_ERROR, message)

invalid_params(message) == McpErrorNew(INVALID_PARAMS, message)

internal_error(message) == McpErrorNew(INTERNAL_ERROR, message)

ResponseSuccess(id, result) ==
    [id |-> id, result |-> Some(result), error |-> None, meta |-> None]

\* mutant: the error constructor also fills result
ResponseErrorWithResult(id, error) ==
    [id |-> id, result |-> Some(EmptyObject), error |-> Some(error), meta |-> None]

ResponseError(id, error) ==
    [id |-> id, result |-> None, error |-> Some(error), meta |-> None]

(***************************************************************************)
(* serde_json::to_value of the response structs.  Every map in them has    *)
(* string keys, so the conversion returns Ok; the handlers unwrap it.      *)
(***************************************************************************)
ToValue(x) == Ok(x)

(***************************************************************************)
(* Tool implementations (impl McpTool).  EchoTool and CalculateTool are    *)
(* the built-in tools; AsyncTool and NeverTool stand for implementations   *)
(* of the trait whose execute future suspends: AsyncTool's future resolves *)
(* to Ok or Err at a time of its choosing, NeverTool's never resolves.     *)
(* Both keep the trait's default timeout and accept every argument map.    *)
(***************************************************************************)
NoTool == "NoTool"

tool_def(impl) ==
    CASE impl = "EchoTool" ->
           [name |-> "echo", description |-> "Echo back the input text",
            properties |-> {<<"text", "string">>, <<"uppercase", "boolean">>},
            required |-> {"text"}, output_schema |-> None, metadata |-> None]
      [] impl = "CalculateTool" ->
           [name |-> "calculate",
            description |-> "Perform basic mathematical calculations",
            properties |-> {<<"expression", "string">>, <<"precision", "integer">>},
            required |-> {"expression"}, output_schema |-> None, metadata |-> None]
      [] impl = "AsyncTool" ->
           [name |-> "slow", description |-> "Suspending tool",
            properties |-> {}, required |-> {}, output_schema |-> None, metadata |-> None]
      [] OTHER ->
           [name |-> "never", description |-> "Tool that never completes",
            properties |-> {}, required |-> {}, output_schema |-> None, metadata |-> None]

timeout_doubled(impl) ==
    2 * (IF impl = "CalculateTool" THEN CalculateTimeoutSecs ELSE DefaultTimeoutSecs)

timeout(impl) ==
    IF impl = "CalculateTool" THEN CalculateTimeoutSecs ELSE DefaultTimeoutSecs

Suspends(impl) == impl \in {"AsyncTool", "NeverTool"}

TextContent(cs) == [type |-> "text", text |-> cs]

CallToolResponse(content) ==
    [tag |-> "CallToolResponse", content |-> content, is_progress |-> None]

(***************************************************************************)
(* EchoTool.                                                               *)
(***************************************************************************)
UpperChar(c) ==
    CASE c = "h" -> "H"
      [] c = "i" -> "I"
      [] c = "a" -> "A"
      [] c = "b" -> "B"
      [] OTHER -> c

to_uppercase(cs) == [i \in 1..Len(cs) |-> UpperChar(cs[i])]

EchoValidateArgsTextOptional(args) ==
    IF "text" \in DOMAIN args /\ args["text"].t # "string"
    THEN Err(<<"'text' must be a string">>)
    ELSE IF "uppercase" \in DOMAIN args /\ args["uppercase"].t # "bool"
    THEN Err(<<"'uppercase' must be a boolean">>)
    ELSE Ok("unit")

EchoValidateArgs(args) ==
    IF "text" \notin DOMAIN args
    THEN Err(<<"Missing required 'text' argument">>)
    ELSE IF args["text"].t # "string"
    THEN Err(<<"'text' must be a string">>)
    ELSE IF "uppercase" \in DOMAIN args /\ args["uppercase"].t # "bool"
    THEN Err(<<"'uppercase' must be a boolean">>)
    ELSE Ok("unit")

EchoExecuteAlwaysUpper(args) ==
    IF ~("text" \in DOMAIN args /\ args["text"].t = "string")
    THEN Err(<<"Missing 'text' argument">>)
    ELSE Ok(CallToolResponse(<<TextContent(to_uppercase(args["text"].s))>>))

EchoExecute(args) ==
    IF ~("text" \in DOMAIN args /\ args["text"].t = "string")
    THEN Err(<<"Missing 'text' argument">>)
    ELSE LET text == args["text"].s
             uppercase == IF "uppercase" \in DOMAIN args
                             /\ args["uppercase"].t = "bool"
                          THEN args["uppercase"].b ELSE FALSE
             result_text == IF uppercase THEN to_uppercase(text) ELSE text
         IN  Ok(CallToolResponse(<<TextContent(result_text)>>))

(***************************************************************************)
(* CalculateTool.                                                          *)
(***************************************************************************)
Digits == {"0", "1", "2", "3", "4", "5", "6", "7", "8", "9"}

DigitVal(c) ==
    CASE c = "0" -> 0 [] c = "1" -> 1 [] c = "2" -> 2 [] c = "3" -> 3
      [] c = "4" -> 4 [] c = "5" -> 5 [] c = "6" -> 6 [] c = "7" -> 7
      [] c = "8" -> 8 [] OTHER -> 9

DigitChar(d) ==
    CASE d = 0 -> "0" [] d = 1 -> "1" [] d = 2 -> "2" [] d = 3 -> "3"
      [] d = 4 -> "4" [] d = 5 -> "5" [] d = 6 -> "6" [] d = 7 -> "7"
      [] d = 8 -> "8" [] OTHER -> "9"

RECURSIVE TrimStart(_)
TrimStart(cs) ==
    IF cs # <<>> /\ Head(cs) = " " THEN TrimStart(Tail(cs)) ELSE cs

RECURSIVE TrimEnd(_)
TrimEnd(cs) ==
    IF cs # <<>> /\ cs[Len(cs)] = " "
    THEN TrimEnd(SubSeq(cs, 1, Len(cs) - 1)) ELSE cs

Trim(cs) == TrimEnd(TrimStart(cs))

Contains(cs, ch) == \E i \in 1..Len(cs) : cs[i] = ch

RECURSIVE SplitFrom(_, _, _)
SplitFrom(cs, ch, cur) ==
    IF cs = <<>> THEN <<cur>>
    ELSE IF Head(cs) = ch THEN <<cur>> \o SplitFrom(Tail(cs), ch, <<>>)
    ELSE SplitFrom(Tail(cs), ch, Append(cur, Head(cs)))

Split(cs, ch) == SplitFrom(cs, ch, <<>>)

RECURSIVE DigitsValue(_, _)
DigitsValue(cs, acc) ==
    IF cs = <<>> THEN acc
    ELSE DigitsValue(Tail(cs), 10 * acc + DigitVal(Head(cs)))

\* an f64: not-a-number, or a number kept in hundredths
F64(h) == [nan |-> FALSE, h |-> h]

NaN == [nan |-> TRUE, h |-> 0]

LowerChar(c) ==
    CASE c = "N" -> "n" [] c = "A" -> "a" [] OTHER -> c

Unsigned(cs) ==
    IF cs # <<>> /\ Head(cs) \in {"+", "-"} THEN Tail(cs) ELSE cs

SignOf(cs) == IF cs # <<>> /\ Head(cs) = "-" THEN -1 ELSE 1

\* the hundredths that the digits after the point stand for
Cents(frac) ==
    IF Len(frac) = 0 THEN 0
    ELSE IF Len(frac) = 1 THEN 10 * DigitVal(frac[1])
    ELSE 10 * DigitVal(frac[1]) + DigitVal(frac[2])

\* the digits before and after the point
ParseDecimal(whole, frac) ==
    IF \/ Len(whole) + Len(frac) = 0
       \/ \E i \in 1..Len(whole) : whole[i] \notin Digits
       \/ \E i \in 1..Len(frac) : frac[i] \notin Digits
    THEN Err("ParseFloatError")
    ELSE Ok(F64(100 * DigitsValue(whole, 0) + Cents(frac)))

ParsePointed(parts) ==
    IF Len(parts) > 2 THEN Err("ParseFloatError")
    ELSE ParseDecimal(parts[1], IF Len(parts) = 2 THEN parts[2] ELSE <<>>)

ParseUnsigned(body) ==
    IF [i \in 1..Len(body) |-> LowerChar(body[i])] = <<"n", "a", "n">>
    THEN Ok(NaN)
    ELSE ParsePointed(Split(body, "."))

ApplySign(sign, r) ==
    IF ~r.ok \/ r.val.nan THEN r ELSE Ok(F64(sign * r.val.h))

\* str::parse::<f64> on an optional sign followed by the literal nan in
\* any case or by decimal digits with an optional point; the texts fed
\* have no exponent and at most two digits after the point
ParseF64(cs) == ApplySign(SignOf(cs), ParseUnsigned(Unsigned(cs)))

Abs(x) == IF x < 0 THEN -x ELSE x

\* f64::round of num/den, half away from zero
RoundDiv(num, den) ==
    LET q == (2 * Abs(num) + Abs(den)) \div (2 * Abs(den))
    IN  IF (num < 0) # (den < 0) THEN -q ELSE q

\* (x).round() / 100.0 where x is num/den
RoundedHundredth(num, den) == F64(RoundDiv(num, den))

Operands(left, right) ==
    IF ~left.ok THEN Err(<<"Invalid left operand">>)
    ELSE IF ~right.ok THEN Err(<<"Invalid right operand">>)
    ELSE Ok(<<left.val, right.val>>)

BinaryOperands(parts) ==
    Operands(ParseF64(Trim(parts[1])), ParseF64(Trim(parts[2])))

\* the four return expressions, on the parsed operands o
Apply(op, o) ==
    IF ~o.ok THEN o
    ELSE IF op = "/" /\ ~o.val[2].nan /\ o.val[2].h = 0
    THEN Err(<<"Division by zero">>)
    ELSE IF o.val[1].nan \/ o.val[2].nan THEN Ok(NaN)
    ELSE CASE op = "+" -> Ok(RoundedHundredth(o.val[1].h + o.val[2].h * 100, 100))
           [] op = "-" -> Ok(RoundedHundredth(o.val[1].h - o.val[2].h * 100, 100))
           [] op = "*" -> Ok(RoundedHundredth(o.val[1].h * o.val[2].h, 100))
           [] op = "/" -> Ok(RoundedHundredth(o.val[1].h * 100, o.val[2].h))

\* whether the branch of op returns: the text has op and splits in two
Returns(expression, op) ==
    Contains(expression, op) /\ Len(Split(expression, op)) = 2

SingleNumber(single) ==
    IF single.ok THEN single ELSE Err(<<"Invalid expression format">>)

\* the first operator, in the order + - * /, whose branch returns
BranchOf(expression) ==
    IF Returns(expression, "+") THEN "+"
    ELSE IF Returns(expression, "-") THEN "-"
    ELSE IF Returns(expression, "*") THEN "*"
    ELSE IF Returns(expression, "/") THEN "/"
    ELSE "none"

Evaluate(expression, op) ==
    IF op = "none" THEN SingleNumber(ParseF64(expression))
    ELSE Apply(op, BinaryOperands(Split(expression, op)))

EvaluateTrimmed(expression) == Evaluate(expression, BranchOf(expression))

evaluate_expression(expression0) == EvaluateTrimmed(Trim(expression0))

RECURSIVE NatChars(_)
NatChars(n) ==
    IF n < 10 THEN <<DigitChar(n)>>
    ELSE Append(NatChars(n \div 10), DigitChar(n % 10))

\* Display of an f64
FormatF64(x) ==
    LET a == Abs(x.h)
        whole == a \div 100
        frac == a % 100
        sign == IF x.h < 0 THEN <<"-">> ELSE <<>>
        tail == IF frac = 0 THEN <<>>
                ELSE IF frac % 10 = 0 THEN <<".", DigitChar(frac \div 10)>>
                ELSE <<".", DigitChar(frac \div 10), DigitChar(frac % 10)>>
    IN  IF x.nan THEN <<"N", "a", "N">> ELSE sign \o NatChars(whole) \o tail

ResultPrefix == <<"R", "e", "s", "u", "l", "t", ":", " ">>

CalculateValidateArgs(args) ==
    IF "expression" \notin DOMAIN args
    THEN Err(<<"Missing required 'expression' argument">>)
    ELSE IF args["expression"].t # "string"
    THEN Err(<<"'expression' must be a string">>)
    ELSE IF "precision" \in DOMAIN args
            /\ ~(args["precision"].t = "number" /\ args["precision"].n >= 0)
    THEN Err(<<"'precision' must be a positive integer">>)
    ELSE Ok("unit")

CalculateExecute(args) ==
    IF ~("expression" \in DOMAIN args /\ args["expression"].t = "string")
    THEN Err(<<"Missing 'expression' argument">>)
    ELSE LET result == evaluate_expression(args["expression"].s)
         IN  IF ~result.ok THEN result
             ELSE Ok(CallToolResponse(
                        <<TextContent(ResultPrefix \o FormatF64(result.val))>>))

(***************************************************************************)
(* Dispatch through the trait object.                                      *)
(***************************************************************************)
validate_args_accepting(impl, args) == Ok("unit")

validate_args(impl, args) ==
    CASE impl = "EchoTool" -> EchoValidateArgs(args)
      [] impl = "CalculateTool" -> CalculateValidateArgs(args)
      [] OTHER -> Ok("unit")

\* execute of the tools whose future is ready at its first poll
ExecuteNow(impl, args) ==
    IF impl = "EchoTool" THEN EchoExecute(args) ELSE CalculateExecute(args)

\* the values a suspending tool's future can resolve to
AsyncOutcomes ==
    {Ok(CallToolResponse(<<TextContent(<<"o", "k">>)>>)),
     Err(<<"tool failed">>)}

(***************************************************************************)
(* Requests.  params is an Option<Value>; the value is one of: a JSON      *)
(* value that is no object ("junk"), the empty object, a complete          *)
(* InitializeRequest, or a CallToolRequest.                                *)
(***************************************************************************)
ToolNames == {"echo", "calculate", "slow"}

Methods ==
    {"initialize", "initialized", "tools/list", "tools/call",
     "resources/list", "resources/read", "prompts/list", "prompts/get",
     "ping", "unknown/method", "Ping", "tools/calls"}

ListMethods == {"tools/list", "resources/list", "prompts/list"}

JunkParams == [kind |-> "junk", version |-> "", name |-> "", arguments |-> None]

ObjectParams == [kind |-> "object", version |-> "", name |-> "", arguments |-> None]

InitParams(version) ==
    [kind |-> "init", version |-> version, name |-> "", arguments |-> None]

\* an initialize object that lacks one required field of InitializeRequest
InitParamsWithout(field) ==
    [kind |-> "init_without", version |-> SupportedProtocolVersion, name |-> field,
     arguments |-> None]

CallParams(name, arguments) ==
    [kind |-> "call", version |-> "", name |-> name, arguments |-> arguments]

TextHi == "text" :> JString(<<"h", "i">>)

TextHiUpper == TextHi @@ ("uppercase" :> JBool(TRUE))

TextNumber == "text" :> JNumber(5)

ExprDivide == "expression" :> JString(<<"6", " ", "/", " ", "3">>)

ExprDivideByZero == "expression" :> JString(<<"1", " ", "/", " ", "0">>)

ExprAdd == "expression" :> JString(<<"1", " ", "+", " ", "2">>)

TextMixed == "text" :> JString(<<"A", "b", "1">>)

\* the argument maps the echo tool is called with
EchoArguments ==
    {None, Some(<<>>), Some("uppercase" :> JBool(TRUE)),
     Some(TextHi), Some(TextHiUpper),
     Some(TextHi @@ ("uppercase" :> JBool(FALSE))),
     Some(TextMixed), Some(TextMixed @@ ("uppercase" :> JBool(TRUE))),
     Some(TextMixed @@ ("uppercase" :> JBool(FALSE))),
     Some("text" :> JString(<<>>)),
     Some(TextNumber), Some(TextHi @@ ("uppercase" :> JString(<<"h", "i">>)))}

\* one operator between two numeric operands: 1 + 2, 5 - 3, 0.5 + 0.25, 2 * 3, 1.5 * 1.5, -2 * -3, 6 / 3, 7 / 2, 1 / 3
BinaryExpressions ==
    {<<"1", " ", "+", " ", "2">>,
     <<"5", " ", "-", " ", "3">>,
     <<"0", ".", "5", " ", "+", " ", "0", ".", "2", "5">>,
     <<"2", " ", "*", " ", "3">>,
     <<"1", ".", "5", " ", "*", " ", "1", ".", "5">>,
     <<"-", "2", " ", "*", " ", "-", "3">>,
     <<"6", " ", "/", " ", "3">>,
     <<"7", " ", "/", " ", "2">>,
     <<"1", " ", "/", " ", "3">>}

\* an operand that is no number: a + 1, 1 + a, nan + 1, 1 / nan, 2 * b
NonNumericOperand ==
    {<<"a", " ", "+", " ", "1">>,
     <<"1", " ", "+", " ", "a">>,
     <<"n", "a", "n", " ", "+", " ", "1">>,
     <<"1", " ", "/", " ", "n", "a", "n">>,
     <<"2", " ", "*", " ", "b">>}

\* an operand is missing: 1 +, + 1, 1 /, * 2, 3 -
MissingOperand ==
    {<<"1", " ", "+">>,
     <<"+", " ", "1">>,
     <<"1", " ", "/">>,
     <<"*", " ", "2">>,
     <<"3", " ", "-">>}

\* more than one operator: 1 + 2 + 3, 1 + 2 * 3, 2 * 3 / 4, 6 / 3 / 2, 5 - 3 - 1
SeveralOperators ==
    {<<"1", " ", "+", " ", "2", " ", "+", " ", "3">>,
     <<"1", " ", "+", " ", "2", " ", "*", " ", "3">>,
     <<"2", " ", "*", " ", "3", " ", "/", " ", "4">>,
     <<"6", " ", "/", " ", "3", " ", "/", " ", "2">>,
     <<"5", " ", "-", " ", "3", " ", "-", " ", "1">>}

\* a division whose right operand is zero: 1 / 0, 0 / 0, 1 / 0.0, 7 /0
ZeroDivisions ==
    {<<"1", " ", "/", " ", "0">>,
     <<"0", " ", "/", " ", "0">>,
     <<"1", " ", "/", " ", "0", ".", "0">>,
     <<"7", " ", "/", "0">>}

Expression(cs) == "expression" :> JString(cs)

\* the argument maps the calculate tool is called with; the last two
\* expressions are a lone number and the empty text
CalculateArguments ==
    {None, Some("expression" :> JNumber(5)),
     Some(Expression(<<"1", " ", "+", " ", "2">>) @@ ("precision" :> JNumber(0))),
     Some(Expression(<<"1", "2">>)), Some(Expression(<<>>))} \cup
    {Some(Expression(cs)) :
         cs \in BinaryExpressions \cup NonNumericOperand \cup MissingOperand
                   \cup SeveralOperators \cup ZeroDivisions}

ArgumentsFor(name) ==
    CASE name = "echo" -> {None, Some(TextHi), Some(TextHiUpper), Some(TextNumber)}
      [] name = "calculate" ->
           {None, Some(ExprDivide), Some(ExprDivideByZero), Some(ExprAdd)}
      [] OTHER -> {None, Some(TextHi)}

CallParamSet == {CallParams(n, a) : n \in ToolNames, a \in {None}} \cup
                UNION {{CallParams(n, a) : a \in ArgumentsFor(n)} : n \in ToolNames}

ParamsFor(method) ==
    CASE method = "initialize" ->
           {None, Some(JunkParams), Some(ObjectParams),
            Some(InitParams(SupportedProtocolVersion)), Some(InitParams("1.0.0")),
            Some(InitParams("2025-03-26")),
            Some(InitParamsWithout("capabilities")),
            Some(InitParamsWithout("client_info"))}
      [] method = "tools/call" ->
           {None, Some(JunkParams), Some(ObjectParams)} \cup
           {Some(p) : p \in CallParamSet}
      [] method \in ListMethods -> {None, Some(JunkParams), Some(ObjectParams)}
      [] method \in {"resources/read", "prompts/get"} ->
           {None, Some(JunkParams), Some(ObjectParams)}
      [] method = "tools/calls" -> {Some(CallParams("echo", Some(TextHi)))}
      [] OTHER -> {None, Some(JunkParams)}

McpRequest(id, method, params) ==
    [id |-> id, method |-> method, params |-> params, meta |-> None]

Requests ==
    UNION {{McpRequest(id, m, p) : id \in RequestIds, p \in ParamsFor(m)} : m \in Methods}

\* the requests of the handlers that run side by side
ToolRequests ==
    {McpRequest(IdNumber(7), "tools/list", None),
     McpRequest(IdNumber(7), "tools/call", Some(CallParams("slow", None))),
     McpRequest(IdNumber(7), "tools/call", Some(CallParams("echo", Some(TextHi))))}

\* calls of the built-in tools
BuiltinCallRequests ==
    {McpRequest(IdNumber(7), "tools/call", Some(CallParams("echo", a))) :
         a \in EchoArguments} \cup
    {McpRequest(IdNumber(7), "tools/call", Some(CallParams("calculate", a))) :
         a \in CalculateArguments}

\* the requests of the connection whose progress is followed
LiveRequests ==
    ToolRequests \cup
    {McpRequest(IdNumber(7), "tools/call", Some(CallParams("calculate", Some(ExprDivide))))}

\* the requests of connections that are at different points of the
\* handshake
SessionRequests ==
    {McpRequest(IdNumber(7), "initialize", Some(InitParams(SupportedProtocolVersion))),
     McpRequest(IdNumber(7), "initialized", None),
     McpRequest(IdNumber(7), "ping", None),
     McpRequest(IdNumber(7), "tools/list", None),
     McpRequest(IdNumber(7), "tools/call", Some(CallParams("echo", Some(TextHi)))),
     McpRequest(IdNumber(7), "tools/call", Some(CallParams("calculate", Some(ExprAdd))))}

NoRequest == McpRequest(IdNull, "", None)

(***************************************************************************)
(* serde_json::from_value into the request structs.                        *)
(***************************************************************************)
DecodeInitializeRequest(v) ==
    IF v.kind = "init" THEN Ok([protocol_version |-> v.version])
    ELSE IF v.kind = "junk" THEN Err(<<"invalid type, expected struct InitializeRequest">>)
    ELSE IF v.kind = "init_without" THEN Err(<<"missing field ", v.name>>)
    ELSE Err(<<"missing field protocol_version">>)

DecodeCallToolRequest(v) ==
    IF v.kind = "call" THEN Ok([name |-> v.name, arguments |-> v.arguments])
    ELSE IF v.kind = "junk" THEN Err(<<"invalid type, expected struct CallToolRequest">>)
    ELSE Err(<<"missing field name">>)

DecodeListRequest(v) ==
    IF v.kind = "junk" THEN Err(<<"invalid type, expected struct">>)
    ELSE Ok([cursor |-> None])

(***************************************************************************)
(* ServerInfo held by the protocol handler.                                *)
(***************************************************************************)
ServerCapabilitiesValue ==
    [tools |-> Some([list_changed |-> Some(FALSE)]),
     resources |-> Some([subscribe |-> Some(FALSE), list_changed |-> Some(FALSE)]),
     prompts |-> Some([list_changed |-> Some(FALSE)]),
     logging |-> Some([level |-> Some("info")])]

ServerInfoValue ==
    [name |-> "Loco MCP Server", protocol_version |-> SupportedProtocolVersion,
     capabilities |-> ServerCapabilitiesValue]

(***************************************************************************)
(* The handlers of the methods that do not touch the registry.             *)
(***************************************************************************)
\* Result::unwrap: the value, or a panic that leaves the handler without a Response
Panic == [tag |-> "panic"]

ValueOf(r) == IF r.ok THEN r.val ELSE Panic

\* mutant: the decoded params are unwrapped instead of matched
handle_initialize_unwrap(request) ==
    LET init_req ==
            ValueOf(IF request.params = None THEN Err(<<"Missing parameters">>)
                    ELSE DecodeInitializeRequest(request.params[1]))
    IN  IF init_req = Panic THEN ResponseSuccess(request.id, Panic)
        ELSE IF init_req.protocol_version # SupportedProtocolVersion
        THEN ResponseError(request.id,
                 invalid_request(<<"Unsupported protocol version">>))
        ELSE ResponseSuccess(request.id,
                 ValueOf(ToValue([tag |-> "InitializeResponse",
                                  protocol_version |-> SupportedProtocolVersion,
                                  capabilities |-> ServerInfoValue.capabilities,
                                  server_info |-> ServerInfoValue])))

handle_initialize(request) ==
    LET init_request ==
            IF request.params = None THEN Err(<<"Missing parameters">>)
            ELSE DecodeInitializeRequest(request.params[1])
    IN  IF init_request.ok
        THEN IF init_request.val.protocol_version # SupportedProtocolVersion
             THEN ResponseError(request.id,
                      invalid_request(<<"Unsupported protocol version">>))
             ELSE ResponseSuccess(request.id,
                      ValueOf(ToValue([tag |-> "InitializeResponse",
                                       protocol_version |-> SupportedProtocolVersion,
                                       capabilities |-> ServerInfoValue.capabilities,
                                       server_info |-> ServerInfoValue])))
        ELSE ResponseError(request.id,
                 invalid_params(<<"Invalid initialize request: ">> \o init_request.err))

handle_initialized_refused(request) ==
    ResponseError(request.id, invalid_request(<<"Notifications are not answered">>))

handle_initialized(request) == ResponseSuccess(request.id, EmptyObject)

\* mutant: ping answers with the Null id
handle_ping_null_id(request) == ResponseSuccess(IdNull, EmptyObject)

handle_ping(request) == ResponseSuccess(request.id, EmptyObject)

handle_resources_read(request) ==
    ResponseError(request.id, method_not_found(<<"Resource reading not implemented">>))

handle_prompts_get_empty_result(request) == ResponseSuccess(request.id, EmptyObject)

handle_prompts_get(request) ==
    ResponseError(request.id, method_not_found(<<"Prompt generation not implemented">>))

ListRequestOf(request) ==
    IF request.params = None THEN Ok([cursor |-> None])
    ELSE DecodeListRequest(request.params[1])

handle_resources_list(request) ==
    LET list_request == ListRequestOf(request)
    IN  IF list_request.ok
        THEN ResponseSuccess(request.id,
                 ValueOf(ToValue([tag |-> "ListResourcesResponse",
                                  resources |-> <<>>, next_cursor |-> None])))
        ELSE ResponseError(request.id,
                 invalid_params(<<"Invalid list resources request: ">> \o list_request.err))

handle_prompts_list(request) ==
    LET list_request == ListRequestOf(request)
    IN  IF list_request.ok
        THEN ResponseSuccess(request.id,
                 ValueOf(ToValue([tag |-> "ListPromptsResponse",
                                  prompts |-> <<>>, next_cursor |-> None])))
        ELSE ResponseError(request.id,
                 invalid_params(<<"Invalid list prompts request: ">> \o list_request.err))

CallRequestOf(request) ==
    IF request.params = None THEN Err(<<"Missing parameters">>)
    ELSE DecodeCallToolRequest(request.params[1])

\* the methods whose handler awaits the registry lock
NeedsRegistry(request) ==
    \/ request.method = "tools/list" /\ ListRequestOf(request).ok
    \/ request.method = "tools/call" /\ CallRequestOf(request).ok

\* handle_request for a request that is answered without the registry
handle_request(request) ==
    CASE request.method = "initialize" -> handle_initialize(request)
      [] request.method = "initialized" -> handle_initialized(request)
      [] request.method = "tools/list" ->
           ResponseError(request.id,
               invalid_params(<<"Invalid list tools request: ">>
                                  \o ListRequestOf(request).err))
      [] request.method = "tools/call" ->
           ResponseError(request.id,
               invalid_params(<<"Invalid call tool request: ">>
                                  \o CallRequestOf(request).err))
      [] request.method = "resources/list" -> handle_resources_list(request)
      [] request.method = "resources/read" -> handle_resources_read(request)
      [] request.method = "prompts/list" -> handle_prompts_list(request)
      [] request.method = "prompts/get" -> handle_prompts_get(request)
      [] request.method = "ping" -> handle_ping(request)
      [] OTHER ->
           ResponseError(request.id,
               method_not_found(<<"Method '", request.method, "' not found">>))

(***************************************************************************)
(* tokio::sync::RwLock around the registry: any number of readers or one   *)
(* writer; waiters are served first-in first-out, so a reader that arrives *)
(* behind a queued writer waits for that writer.                           *)
(***************************************************************************)
LockFree == [readers |-> {}, writer |-> None, waiters |-> <<>>]

Waiter(p, mode) == [proc |-> p, mode |-> mode]

RECURSIVE Grant(_)
Grant(l) ==
    IF l.waiters = <<>> THEN l
    ELSE LET w == Head(l.waiters)
         IN  IF w.mode = "write"
             THEN IF l.readers = {} /\ l.writer = None
                  THEN [l EXCEPT !.writer = Some(w.proc), !.waiters = Tail(@)]
                  ELSE l
             ELSE IF l.writer = None
                  THEN Grant([l EXCEPT !.readers = @ \cup {w.proc},
                                       !.waiters = Tail(@)])
                  ELSE l

AcquireRead(l, p) ==
    IF l.writer = None /\ l.waiters = <<>>
    THEN [l EXCEPT !.readers = @ \cup {p}]
    ELSE [l EXCEPT !.waiters = Append(@, Waiter(p, "read"))]

AcquireWrite(l, p) ==
    IF l.writer = None /\ l.readers = {} /\ l.waiters = <<>>
    THEN [l EXCEPT !.writer = Some(p)]
    ELSE [l EXCEPT !.waiters = Append(@, Waiter(p, "write"))]

Release(l, p) ==
    Grant([l EXCEPT !.readers = @ \ {p},
                    !.writer = IF @ = Some(p) THEN None ELSE @])

Holds(l, p) == p \in l.readers \/ l.writer = Some(p)

IsWaiting(l, p) == \E i \in 1..Len(l.waiters) : l.waiters[i].proc = p

(***************************************************************************)
(* ToolRegistry: the DashMap from name to tool.                            *)
(***************************************************************************)
EmptyRegistry == [n \in ToolNames |-> NoTool]

contains_key_never(m, name) == FALSE

contains_key(m, name) == m[name] # NoTool

insert_replacing(m, name, impl) == [EmptyRegistry EXCEPT ![name] = impl]

insert(m, name, impl) == [m EXCEPT ![name] = impl]

\* the registry of a McpServer after new: register_builtin_tools has run
BuiltinRegistry ==
    insert(insert(EmptyRegistry, "echo", "EchoTool"), "calculate", "CalculateTool")

\* DashMap::remove
remove(m, name) == [m EXCEPT ![name] = NoTool]

has_tool_by_tool_name(m, name) ==
    \E n \in DOMAIN m : m[n] # NoTool /\ tool_def(m[n]).name = name

has_tool(m, name) == contains_key(m, name)

tool_count(m) == Cardinality({n \in ToolNames : m[n] # NoTool})

\* the iteration order of the map is unspecified; the model lists by name
KeyOrder == <<"calculate", "echo", "slow">>

RECURSIVE ListFrom(_, _)
ListFrom(m, i) ==
    IF i > Len(KeyOrder) THEN <<>>
    ELSE (IF m[KeyOrder[i]] # NoTool THEN <<tool_def(m[KeyOrder[i]])>> ELSE <<>>)
         \o ListFrom(m, i + 1)

list_tools_builtin(m) == <<tool_def("CalculateTool"), tool_def("EchoTool")>>

list_tools(m) == ListFrom(m, 1)

RegPairs ==
    {<<"echo", "EchoTool">>, <<"calculate", "CalculateTool">>,
     <<"slow", "AsyncTool">>, <<"slow", "NeverTool">>}

RegisterPaths == {"server", "registry"}

\* registrations that also offer a tool under a key of the caller's choice
AliasPairs == RegPairs \cup {<<"slow", "EchoTool">>}

(***************************************************************************)
(* State.                                                                  *)
(***************************************************************************)
VARIABLES
    tools,   \* ToolRegistry.tools
    lock,    \* the RwLock around the registry
    hpc,     \* where each request handler is
    hreq,    \* the request it is handling
    hresp,   \* the Response it returned
    hcall,   \* its call of execute_tool
    rpc,     \* where each caller of register_tool is
    rop,     \* the registration it asked for
    rres,    \* the Result it got
    hphase,  \* history: how far the connection's handshake has got
    rejection, \* the rejection the Json extractor answered a POST with
    wsconn,  \* what became of each client's GET of /mcp/ws
    wsframes, \* the text frames the client has for the connection
    wsreplies, \* what the server sent the client, in order
    cache,   \* TemplateCache.cache: the content stored under each key
    stats,   \* TemplateCache.stats
    clast,   \* the last call on the cache and what it returned
    hstored, \* history: the content each key was last put with, if the
             \* put returned Ok and no remove or clear came after
    hgets,   \* history: the get calls that found, and missed, their key
    version, \* BaseAggregate.version
    committed_events,   \* BaseAggregate.committed_events
    uncommitted_events, \* BaseAggregate.uncommitted_events
    alast,   \* the last call on the aggregate and what it returned
    hevents, \* history: the events given to add_event, in order
    hincrements, \* history: the calls of increment_version
    builder, \* the McpServerBuilder: config, environment and the custom lists
    server,  \* what build() returned, None before it is called
    puts,    \* the put call each concurrent caller of the cache is in
    wire     \* a message, the JSON document made of it, and what was decoded

wsvars == <<wsconn, wsframes, wsreplies>>

cvars == <<cache, stats, clast, hstored, hgets>>

avars == <<version, committed_events, uncommitted_events, alast, hevents, hincrements>>

bvars == <<builder, server>>

vars == <<tools, lock, hpc, hreq, hresp, hcall, rpc, rop, rres, hphase, rejection, wsvars, cvars, avars, bvars, puts, wire>>

hvars == <<hpc, hreq, hresp, hcall, hphase, rejection>>

rvars == <<rpc, rop, rres>>

Handlers == 1..NumHandlers

(***************************************************************************)
(* BaseAggregate and AggregateLifecycle, for one aggregate from            *)
(* BaseAggregate::new on.  The version is a u32; the increments followed   *)
(* stay far below its width.                                               *)
(***************************************************************************)
DomainEvents == {"e1", "e2"}

VersionNew == 0

NoAggregateCall == [op |-> "none", arg |-> 0, result |-> None]

OtherAggregate == UNCHANGED <<tools, lock, hvars, rvars, wsvars, cvars, bvars, puts, wire>>

increment_version ==
    /\ version < MaxVersion
    /\ version' = version + 1
    /\ hincrements' = hincrements + 1
    /\ alast' = [op |-> "increment_version", arg |-> 0, result |-> None]
    /\ UNCHANGED <<committed_events, uncommitted_events, hevents>>
    /\ OtherAggregate

add_event(event) ==
    /\ Len(hevents) < MaxEvents
    /\ uncommitted_events' = Append(uncommitted_events, event)
    /\ hevents' = Append(hevents, event)
    /\ alast' = [op |-> "add_event", arg |-> 0, result |-> None]
    /\ UNCHANGED <<version, committed_events, hincrements>>
    /\ OtherAggregate

\* the uncommitted events are popped from the front and pushed at the back
\* of the committed ones until none is left
mark_events_as_committed_reversed ==
    /\ committed_events' = committed_events \o
           [i \in 1..Len(uncommitted_events) |->
                uncommitted_events[Len(uncommitted_events) + 1 - i]]
    /\ uncommitted_events' = <<>>
    /\ alast' = [op |-> "mark_events_as_committed", arg |-> 0, result |-> None]
    /\ UNCHANGED <<version, hevents, hincrements>>
    /\ OtherAggregate

mark_events_as_committed ==
    /\ committed_events' = committed_events \o uncommitted_events
    /\ uncommitted_events' = <<>>
    /\ alast' = [op |-> "mark_events_as_committed", arg |-> 0, result |-> None]
    /\ UNCHANGED <<version, hevents, hincrements>>
    /\ OtherAggregate

get_all_events ==
    /\ alast' = [op |-> "get_all_events", arg |-> 0,
                 result |-> Some(committed_events \o uncommitted_events)]
    /\ UNCHANGED <<version, committed_events, uncommitted_events, hevents, hincrements>>
    /\ OtherAggregate

\* AggregateLifecycle::validate_aggregate_state on an aggregate whose own
\* validate() returns Ok exactly when valid
validate_aggregate_state(valid) ==
    /\ alast' = [op |-> "validate_aggregate_state", arg |-> IF valid THEN 1 ELSE 0,
                 result |-> Some(IF ~valid THEN Err("Validation")
                                 ELSE IF version = 0
                                 THEN Err("Aggregate version cannot be zero")
                                 ELSE Ok("unit"))]
    /\ UNCHANGED <<version, committed_events, uncommitted_events, hevents, hincrements>>
    /\ OtherAggregate

check_concurrency(expected_version) ==
    /\ alast' = [op |-> "check_concurrency", arg |-> expected_version,
                 result |-> Some(IF version # expected_version
                                 THEN Err("Aggregate version mismatch - concurrent modification detected")
                                 ELSE Ok("unit"))]
    /\ UNCHANGED <<version, committed_events, uncommitted_events, hevents, hincrements>>
    /\ OtherAggregate

(***************************************************************************)
(* The wire format: serde_json::to_vec and from_slice of McpResponse and   *)
(* McpRequest.  A document is the JSON text, kept as its parsed tree.      *)
(***************************************************************************)
JNull == [t |-> "null", s |-> <<>>, b |-> FALSE, n |-> 0]

\* Option<Value>: None is written as null, Some(v) as v
SerializeOption(o) == IF o = None THEN JNull ELSE o[1]

\* Option<Value>: null is read as None, anything else as Some
DeserializeOption(j) == IF j = JNull THEN None ELSE Some(j)

\* RequestId is untagged: a string, a number or null
SerializeRequestId(id) ==
    CASE id.kind = "String" -> [t |-> "string", s |-> id.s]
      [] id.kind = "Number" -> [t |-> "number", n |-> id.n]
      [] OTHER -> [t |-> "null"]

\* the variants are tried in the order String, Number, Null
DeserializeRequestId(j) ==
    CASE j.t = "string" -> Ok(IdString(j.s))
      [] j.t = "number" -> Ok(IdNumber(j.n))
      [] j.t = "null" -> Ok(IdNull)
      [] OTHER -> Err("data did not match any variant of untagged enum RequestId")

SerializeMcpError(e) ==
    [t |-> "object", code |-> e.code, message |-> e.message,
     data |-> SerializeOption(e.data)]

DeserializeMcpError(j) ==
    [code |-> j.code, message |-> j.message, data |-> DeserializeOption(j.data)]

\* serde_json::to_vec(response)
SerializeMcpResponse(response) ==
    [id |-> SerializeRequestId(response.id),
     result |-> SerializeOption(response.result),
     error |-> IF response.error = None THEN [t |-> "null"]
               ELSE SerializeMcpError(response.error[1]),
     meta |-> [t |-> "null"]]

\* serde_json::from_slice::<McpResponse>
DeserializeMcpResponse(doc) ==
    IF ~DeserializeRequestId(doc.id).ok THEN Err("invalid id")
    ELSE Ok([id |-> DeserializeRequestId(doc.id).val,
             result |-> DeserializeOption(doc.result),
             error |-> IF doc.error.t = "null" THEN None
                       ELSE Some(DeserializeMcpError(doc.error)),
             meta |-> None])

\* serde_json::to_vec(request), as reqwest's json() does
SerializeMcpRequest(request) ==
    [id |-> SerializeRequestId(request.id), method |-> request.method,
     params |-> SerializeOption(request.params), meta |-> [t |-> "null"]]

\* parse_request
DeserializeMcpRequest(doc) ==
    IF ~DeserializeRequestId(doc.id).ok THEN Err("Failed to parse request")
    ELSE Ok([id |-> DeserializeRequestId(doc.id).val, method |-> doc.method,
             params |-> DeserializeOption(doc.params), meta |-> None])

McpErrorWithData(code, message, data) ==
    [code |-> code, message |-> message, data |-> Some(data)]

WireIds == RequestIds \cup {IdString("7")}

WireValues == {EmptyObject, JNull, JNumber(5), JString(<<"h", "i">>)}

WireErrors ==
    {McpErrorNew(METHOD_NOT_FOUND, <<"Method not found">>)} \cup
    {McpErrorWithData(INTERNAL_ERROR, <<"failed">>, v) : v \in WireValues}

WireResponses ==
    {ResponseSuccess(id, v) : id \in WireIds, v \in WireValues} \cup
    {ResponseError(id, e) : id \in WireIds, e \in WireErrors}

NoWire == [kind |-> "none", sent |-> None, bytes |-> None, got |-> None]

OtherWire == UNCHANGED <<tools, lock, hvars, rvars, wsvars, cvars, avars, bvars, puts>>

\* serialize_response
serialize_response(response) ==
    /\ wire' = [kind |-> "response", sent |-> Some(response),
                bytes |-> Some(SerializeMcpResponse(response)), got |-> None]
    /\ OtherWire

\* the client reads the body: response.json::<McpResponse>()
ClientReadsResponse ==
    /\ wire.kind = "response"
    /\ wire.got = None
    /\ wire' = [wire EXCEPT !.got = Some(DeserializeMcpResponse(wire.bytes[1]))]
    /\ OtherWire

\* the client writes the body: post(url).json(&request)
ClientWritesRequest(request) ==
    /\ wire' = [kind |-> "request", sent |-> Some(request),
                bytes |-> Some(SerializeMcpRequest(request)), got |-> None]
    /\ OtherWire

parse_request ==
    /\ wire.kind = "request"
    /\ wire.got = None
    /\ wire' = [wire EXCEPT !.got = Some(DeserializeMcpRequest(wire.bytes[1]))]
    /\ OtherWire

(***************************************************************************)
(* McpServerBuilder and McpServer::new.                                    *)
(***************************************************************************)
\* a types::Tool, the description of a tool without an implementation
Tool(name) ==
    [name |-> name, description |-> "Say hello with a custom message",
     properties |-> {<<"name", "string">>}, required |-> {"name"},
     output_schema |-> None, metadata |-> None]

CustomTools == {Tool("hello"), Tool("greet")}

CustomResources == {"file:///notes"}

CustomPrompts == {"summarise"}

Environments == {"Development", "Production"}

McpServerBuilderNew ==
    [config |-> None, environment |-> None, custom_tools |-> <<>>,
     custom_resources |-> <<>>, custom_prompts |-> <<>>]

OtherBuilder == UNCHANGED <<tools, lock, hvars, rvars, wsvars, cvars, avars, puts, wire>>

with_config(config) ==
    /\ server = None
    /\ builder' = [builder EXCEPT !.config = Some(config)]
    /\ UNCHANGED server
    /\ OtherBuilder

with_environment(environment) ==
    /\ server = None
    /\ builder' = [builder EXCEPT !.environment = Some(environment)]
    /\ UNCHANGED server
    /\ OtherBuilder

with_tool(tool) ==
    /\ server = None
    /\ Len(builder.custom_tools) < MaxCustom
    /\ builder' = [builder EXCEPT !.custom_tools = Append(@, tool)]
    /\ UNCHANGED server
    /\ OtherBuilder

with_resource(resource) ==
    /\ server = None
    /\ Len(builder.custom_resources) < MaxCustom
    /\ builder' = [builder EXCEPT !.custom_resources = Append(@, resource)]
    /\ UNCHANGED server
    /\ OtherBuilder

with_prompt(prompt) ==
    /\ server = None
    /\ Len(builder.custom_prompts) < MaxCustom
    /\ builder' = [builder EXCEPT !.custom_prompts = Append(@, prompt)]
    /\ UNCHANGED server
    /\ OtherBuilder

\* McpServer::new: a registry manager on which register_builtin_tools ran
McpServerNew(config, environment) ==
    Ok([config |-> config, environment |-> environment,
        registry |-> BuiltinRegistry])

\* build: the custom resources and prompts are passed to register_resource
\* and register_prompt, which log and return Ok; custom_tools is not read
Build(b) ==
    IF b.config = None THEN Err("Configuration is required")
    ELSE McpServerNew(b.config[1],
                      IF b.environment = None THEN "Development"
                      ELSE b.environment[1])

\* build consumes the builder: no with_ call follows it
build ==
    /\ server = None
    /\ server' = Some(Build(builder))
    /\ UNCHANGED builder
    /\ OtherBuilder

(***************************************************************************)
(* TemplateCache.  The calls followed are made within ttl_seconds of the   *)
(* puts and between two ticks of the cleanup task, when                    *)
(* cleanup_expired_entries finds nothing expired and lru_cleanup does not  *)
(* run.                                                                    *)
(***************************************************************************)
CacheKeys == {"k1", "k2", "k3"}

\* template contents, of 1, 2 and 3 bytes
CacheContents == {<<"a">>, <<"b", "b">>, <<"c", "c", "c">>}

CacheStatsNew ==
    [total_entries |-> 0, total_size_bytes |-> 0, cache_hits |-> 0,
     cache_misses |-> 0]

NoCacheCall == [op |-> "none", key |-> "", content |-> <<>>, result |-> None]

CacheLen(c) == Cardinality({k \in CacheKeys : c[k] # None})

SaturatingSub(a, b) == IF a < b THEN 0 ELSE a - b

\* TemplateCache::get; mark_used touches only the entry's usage fields
CacheGet(key) ==
    /\ hgets.found + hgets.missed < MaxGets
    /\ clast' = [op |-> "get", key |-> key, content |-> <<>>, result |-> cache[key]]
    /\ hgets' = IF cache[key] # None
                THEN [hgets EXCEPT !.found = @ + 1]
                ELSE [hgets EXCEPT !.missed = @ + 1]
    /\ UNCHANGED <<cache, stats, hstored>>
    /\ UNCHANGED <<tools, lock, hvars, rvars, wsvars, avars, bvars, puts, wire>>

\* TemplateCache::put
CachePut(key, content) ==
    /\ stats.cache_misses < MaxPuts
    /\ IF Len(content) > MaxTemplateSize
       THEN /\ clast' = [op |-> "put", key |-> key, content |-> content,
                         result |-> Some(Err("Template too large"))]
            /\ UNCHANGED <<cache, stats, hstored>>
       ELSE IF CacheLen(cache) >= MaxEntries
       THEN /\ clast' = [op |-> "put", key |-> key, content |-> content,
                         result |-> Some(Ok("unit"))]
            /\ hstored' = [hstored EXCEPT ![key] = Some(content)]
            /\ UNCHANGED <<cache, stats>>
       ELSE /\ cache' = [cache EXCEPT ![key] = Some(content)]
            /\ stats' = [stats EXCEPT !.cache_hits = 0,
                                      !.cache_misses = @ + 1,
                                      !.total_entries = CacheLen(cache'),
                                      !.total_size_bytes = @ + Len(content)]
            /\ clast' = [op |-> "put", key |-> key, content |-> content,
                         result |-> Some(Ok("unit"))]
            /\ hstored' = [hstored EXCEPT ![key] = Some(content)]
    /\ UNCHANGED <<hgets, tools, lock, hvars, rvars, wsvars, avars, bvars, puts, wire>>

(***************************************************************************)
(* TemplateCache::put as the steps of callers that share the cache: the    *)
(* size test, the length test under the read guard, and the insert and the *)
(* statistics under the write guards.  The read guard is dropped before    *)
(* the write guard is taken, so other callers run in between.              *)
(***************************************************************************)
Putters == 1..NumPutters

NoPut == [pc |-> "idle", key |-> "", content |-> <<>>, result |-> None]

PutsInFlight == Cardinality({p \in Putters : puts[p].pc # "idle"})

OtherPuts == UNCHANGED <<tools, lock, hvars, rvars, wsvars, avars, bvars, wire>>

\* put is entered: the content size is validated
PutCall(p, key, content) ==
    /\ puts[p].pc = "idle"
    /\ stats.cache_misses + PutsInFlight < MaxPuts
    /\ puts' = [puts EXCEPT ![p] =
                   IF Len(content) > MaxTemplateSize
                   THEN [pc |-> "done", key |-> key, content |-> content,
                         result |-> Some(Err("Template too large"))]
                   ELSE [pc |-> "check", key |-> key, content |-> content,
                         result |-> None]]
    /\ UNCHANGED <<cache, stats, clast, hstored, hgets>>
    /\ OtherPuts

\* cache.read(): a full cache makes put return Ok without inserting
PutCheck(p) ==
    /\ puts[p].pc = "check"
    /\ IF CacheLen(cache) >= MaxEntries
       THEN /\ puts' = [puts EXCEPT ![p].pc = "done", ![p].result = Some(Ok("unit"))]
            /\ hstored' = [hstored EXCEPT ![puts[p].key] = Some(puts[p].content)]
       ELSE /\ puts' = [puts EXCEPT ![p].pc = "insert"]
            /\ UNCHANGED hstored
    /\ UNCHANGED <<cache, stats, clast, hgets>>
    /\ OtherPuts

\* cache.write(): the insert and the update of the statistics
PutInsert(p) ==
    /\ puts[p].pc = "insert"
    /\ cache' = [cache EXCEPT ![puts[p].key] = Some(puts[p].content)]
    /\ stats' = [stats EXCEPT !.cache_hits = 0,
                              !.cache_misses = @ + 1,
                              !.total_entries = CacheLen(cache'),
                              !.total_size_bytes = @ + Len(puts[p].content)]
    /\ hstored' = [hstored EXCEPT ![puts[p].key] = Some(puts[p].content)]
    /\ puts' = [puts EXCEPT ![p].pc = "done", ![p].result = Some(Ok("unit"))]
    /\ UNCHANGED <<clast, hgets>>
    /\ OtherPuts

\* the caller has its Result and may put again
PutReturn(p) ==
    /\ puts[p].pc = "done"
    /\ puts' = [puts EXCEPT ![p] = NoPut]
    /\ UNCHANGED <<cache, stats, clast, hstored, hgets>>
    /\ OtherPuts

\* TemplateCache::contains
CacheContains(key) ==
    /\ clast' = [op |-> "contains", key |-> key, content |-> <<>>,
                 result |-> Some(IF cache[key] # None THEN "true" ELSE "false")]
    /\ UNCHANGED <<cache, stats, hstored, hgets>>
    /\ UNCHANGED <<tools, lock, hvars, rvars, wsvars, avars, bvars, puts, wire>>

\* TemplateCache::remove
CacheRemove(key) ==
    /\ clast' = [op |-> "remove", key |-> key, content |-> <<>>, result |-> cache[key]]
    /\ cache' = [cache EXCEPT ![key] = None]
    /\ stats' = IF cache[key] # None
                THEN [stats EXCEPT !.total_entries = CacheLen(cache'),
                                   !.total_size_bytes =
                                       SaturatingSub(@, Len(cache[key][1]))]
                ELSE stats
    /\ hstored' = [hstored EXCEPT ![key] = None]
    /\ UNCHANGED <<hgets, tools, lock, hvars, rvars, wsvars, avars, bvars, puts, wire>>

\* TemplateCache::clear
CacheClear ==
    /\ clast' = [op |-> "clear", key |-> "", content |-> <<>>, result |-> None]
    /\ cache' = [k \in CacheKeys |-> None]
    /\ stats' = CacheStatsNew
    /\ hstored' = [k \in CacheKeys |-> None]
    /\ UNCHANGED <<hgets, tools, lock, hvars, rvars, wsvars, avars, bvars, puts, wire>>

WsClients == 1..NumWsClients

Registrars == 1..NumRegistrars

H(h) == <<"handler", h>>

R(r) == <<"registrar", r>>

NoCall ==
    [impl |-> NoTool, timeout_duration |-> 0, elapsed |-> 0,
     validated |-> "none", invoked |-> FALSE, outcomes |-> <<>>,
     work |-> "none", args |-> None]

NoOp == [name |-> "", impl |-> NoTool, path |-> ""]

\* a registry as ToolRegistry::new makes it, or as McpServer::new leaves it
Init ==
    /\ tools \in {EmptyRegistry, BuiltinRegistry}
    /\ lock = LockFree
    /\ hpc = [h \in Handlers |-> "idle"]
    /\ hreq = [h \in Handlers |-> NoRequest]
    /\ hresp = [h \in Handlers |-> None]
    /\ hcall = [h \in Handlers |-> NoCall]
    /\ rpc = [r \in Registrars |-> "idle"]
    /\ rop = [r \in Registrars |-> NoOp]
    /\ rres = [r \in Registrars |-> None]
    /\ hphase = [h \in Handlers |-> "new"]
    /\ rejection = [h \in Handlers |-> None]
    /\ wsconn = [c \in WsClients |-> "none"]
    /\ wsframes = [c \in WsClients |-> <<>>]
    /\ wsreplies = [c \in WsClients |-> <<>>]
    /\ cache = [k \in CacheKeys |-> None]
    /\ stats = CacheStatsNew
    /\ clast = NoCacheCall
    /\ hstored = [k \in CacheKeys |-> None]
    /\ hgets = [found |-> 0, missed |-> 0]
    /\ version = VersionNew
    /\ committed_events = <<>>
    /\ uncommitted_events = <<>>
    /\ alast = NoAggregateCall
    /\ hevents = <<>>
    /\ hincrements = 0
    /\ builder = McpServerBuilderNew
    /\ server = None
    /\ puts = [p \in Putters |-> NoPut]
    /\ wire = NoWire

(***************************************************************************)
(* Request handling (ProtocolHandler::handle_request and what it awaits).  *)
(***************************************************************************)
\* what the caller of handle_request gets: the Response, or none when an
\* unwrap panicked inside the handler
Returned(h, response) ==
    IF response.result = Some(Panic)
    THEN /\ hpc' = [hpc EXCEPT ![h] = "faulted"]
         /\ hresp' = [hresp EXCEPT ![h] = None]
    ELSE /\ hpc' = [hpc EXCEPT ![h] = "responded"]
         /\ hresp' = [hresp EXCEPT ![h] = Some(response)]

\* what a connection has sent so far: nothing of the handshake, initialize,
\* or initialize and then initialized; the handler keeps no such record
PhaseAfter(phase, method) ==
    IF method = "initialize" THEN "initialize"
    ELSE IF method = "initialized" /\ phase = "initialize" THEN "initialized"
    ELSE phase

ReceiveAfterHandshake(h, request) ==
    /\ hpc[h] = "idle"
    /\ hreq' = [hreq EXCEPT ![h] = request]
    /\ hcall' = [hcall EXCEPT ![h] = NoCall]
    /\ IF request.method \in {"tools/list", "tools/call"} /\ hphase[h] # "initialized"
       THEN /\ Returned(h, ResponseError(request.id,
                               invalid_request(<<"Server not initialized">>)))
            /\ UNCHANGED lock
       ELSE IF NeedsRegistry(request)
       THEN /\ lock' = AcquireRead(lock, H(h))
            /\ hpc' = [hpc EXCEPT ![h] = "acquire"]
            /\ hresp' = [hresp EXCEPT ![h] = None]
       ELSE /\ Returned(h, handle_request(request))
            /\ UNCHANGED lock
    /\ hphase' = [hphase EXCEPT ![h] = PhaseAfter(@, request.method)]
    /\ UNCHANGED <<tools, rvars, rejection, wsvars, cvars, avars, bvars, puts, wire>>

\* handle_request up to its first await: the methods that need no registry
\* are answered at once, tools/list and tools/call ask for the read lock
Receive(h, request) ==
    /\ hpc[h] = "idle"
    /\ hreq' = [hreq EXCEPT ![h] = request]
    /\ hcall' = [hcall EXCEPT ![h] = NoCall]
    /\ IF NeedsRegistry(request)
       THEN /\ lock' = AcquireRead(lock, H(h))
            /\ hpc' = [hpc EXCEPT ![h] = "acquire"]
            /\ hresp' = [hresp EXCEPT ![h] = None]
       ELSE /\ Returned(h, handle_request(request))
            /\ UNCHANGED lock
    /\ hphase' = [hphase EXCEPT ![h] = PhaseAfter(@, request.method)]
    /\ UNCHANGED <<tools, rvars, rejection, wsvars, cvars, avars, bvars, puts, wire>>

\* handle_mcp_request hands the Response to the transport as the reply body
\* and the connection is ready for its next request
Reply(h) ==
    /\ hpc[h] \in {"responded", "rejected"}
    /\ hpc' = [hpc EXCEPT ![h] = "idle"]
    /\ hreq' = [hreq EXCEPT ![h] = NoRequest]
    /\ hresp' = [hresp EXCEPT ![h] = None]
    /\ hcall' = [hcall EXCEPT ![h] = NoCall]
    /\ rejection' = [rejection EXCEPT ![h] = None]
    /\ UNCHANGED <<tools, lock, rvars, hphase, wsvars, cvars, avars, bvars, puts, wire>>

\* the body of a POST to /mcp: text that is no JSON, JSON that is no
\* McpRequest, or an McpRequest
HttpBodies ==
    {[kind |-> "malformed", request |-> NoRequest],
     [kind |-> "not_a_request", request |-> NoRequest]} \cup
    {[kind |-> "request", request |-> r] : r \in SessionRequests}

\* what the Json<McpRequest> extractor of handle_mcp_request answers a body
\* it cannot decode with: a bare HTTP status and a plain-text body
JsonRejection(body) ==
    IF body.kind = "malformed"
    THEN [status |-> 400, rejection |-> "JsonSyntaxError"]
    ELSE [status |-> 422, rejection |-> "JsonDataError"]

\* POST /mcp: the extractor decodes the body and only then is
\* handle_mcp_request, and with it handle_request, called
HttpPost(h, body) ==
    IF body.kind = "request"
    THEN Receive(h, body.request)
    ELSE /\ hpc[h] = "idle"
         /\ hpc' = [hpc EXCEPT ![h] = "rejected"]
         /\ rejection' = [rejection EXCEPT ![h] = Some(JsonRejection(body))]
         /\ UNCHANGED <<tools, lock, hreq, hresp, hcall, hphase, rvars, wsvars, cvars, avars, bvars, puts, wire>>

\* a text frame: text that decodes as an McpRequest, or text that does not
WsTextFrames ==
    {[kind |-> "malformed", request |-> NoRequest],
     [kind |-> "request", request |-> McpRequest(IdString("req-a"), "ping", None)],
     [kind |-> "request", request |-> McpRequest(IdNumber(7), "ping", None)]}

FrameSeqs ==
    UNION {[1..n -> WsTextFrames] : n \in 1..MaxFrames}

\* the body handle_websocket_upgrade answers every GET of /mcp/ws with
WebSocketNotImplemented ==
    [error |-> "WebSocket support not yet implemented",
     message |-> "Use HTTP endpoint instead"]

\* GET /mcp/ws by a client that has frames to send: the handler answers
\* with the fixed body as an ordinary HTTP response; the connection is not
\* upgraded and no frame is read, handle_websocket_connection being
\* compiled out
handle_websocket_upgrade(c, frames) ==
    /\ wsconn[c] = "none"
    /\ wsconn' = [wsconn EXCEPT ![c] = "http_answered"]
    /\ wsframes' = [wsframes EXCEPT ![c] = frames]
    /\ wsreplies' = [wsreplies EXCEPT ![c] = <<WebSocketNotImplemented>>]
    /\ UNCHANGED <<tools, lock, hvars, rvars, cvars, avars, bvars, puts, wire>>

\* the client reads the answer and gives up
WsClientLeaves(c) ==
    /\ wsconn[c] = "http_answered"
    /\ wsconn' = [wsconn EXCEPT ![c] = "left"]
    /\ UNCHANGED <<tools, lock, hvars, rvars, wsframes, wsreplies, cvars, avars, bvars, puts, wire>>

handle_tools_list(request, m) ==
    ResponseSuccess(request.id,
        ValueOf(ToValue([tag |-> "ListToolsResponse", tools |-> list_tools(m),
                         next_cursor |-> None])))

\* handle_tools_list once the read guard is held
ToolsList(h) ==
    /\ hpc[h] = "acquire"
    /\ hreq[h].method = "tools/list"
    /\ H(h) \in lock.readers
    /\ Returned(h, handle_tools_list(hreq[h], tools))
    /\ lock' = Release(lock, H(h))
    /\ UNCHANGED <<tools, hreq, hcall, rvars, hphase, rejection, wsvars, cvars, avars, bvars, puts, wire>>

ToolsCallResponseInvalidParams(request, result) ==
    IF result.ok
    THEN ResponseSuccess(request.id, ValueOf(ToValue(result.val)))
    ELSE ResponseError(request.id,
             invalid_params(<<"Tool execution failed: ">> \o result.err))

\* the match on the Result of execute_tool in handle_tools_call
ToolsCallResponse(request, result) ==
    IF result.ok
    THEN ResponseSuccess(request.id, ValueOf(ToValue(result.val)))
    ELSE ResponseError(request.id,
             internal_error(<<"Tool execution failed: ">> \o result.err))

\* execute_tool returns result; handle_tools_call builds the Response and
\* drops the read guard
Deliver(h, call, result) ==
    /\ hcall' = [hcall EXCEPT ![h] = [call EXCEPT !.outcomes = Append(@, result)]]
    /\ Returned(h, ToolsCallResponse(hreq[h], result))
    /\ lock' = Release(lock, H(h))

NotFoundError(name) == Err(<<"Tool '", name, "' not found">>)

TimedOutError(name, timeout_duration) ==
    Err(<<"Tool '", name, "' execution timed out after ">>
            \o NatChars(timeout_duration) \o <<"s">>)

CallName(h) == CallRequestOf(hreq[h]).val.name

CallArgs(h) ==
    LET arguments == CallRequestOf(hreq[h]).val.arguments
    IN  IF arguments = None THEN <<>> ELSE arguments[1]

\* execute_tool from the lookup to the first poll of the tool's future:
\* the call as it stands and, unless the future is pending, its Result
execute_tool_begin(m, name, args) ==
    LET impl == m[name]
        valid == validate_args(impl, args)
        started == [NoCall EXCEPT !.impl = impl, !.validated = "ok",
                                  !.args = Some(args),
                                  !.invoked = TRUE,
                                  !.timeout_duration = timeout(impl),
                                  !.work = "running"]
    IN  IF ~contains_key(m, name)
        THEN [call |-> NoCall, result |-> Some(NotFoundError(name))]
        ELSE IF ~valid.ok
        THEN [call |-> [NoCall EXCEPT !.impl = impl, !.validated = "rejected",
                                      !.args = Some(args)],
              result |-> Some(valid)]
        ELSE IF ~Suspends(impl)
        THEN [call |-> [started EXCEPT !.work = "completed"],
              result |-> Some(ExecuteNow(impl, args))]
        ELSE [call |-> started, result |-> None]

ExecuteToolStart(h) ==
    /\ hpc[h] = "acquire"
    /\ hreq[h].method = "tools/call"
    /\ H(h) \in lock.readers
    /\ LET begun == execute_tool_begin(tools, CallName(h), CallArgs(h))
       IN  IF begun.result # None
           THEN Deliver(h, begun.call, begun.result[1])
           ELSE /\ hcall' = [hcall EXCEPT ![h] = begun.call]
                /\ hpc' = [hpc EXCEPT ![h] = "executing"]
                /\ UNCHANGED <<lock, hresp>>
    /\ UNCHANGED <<tools, hreq, rvars, hphase, rejection, wsvars, cvars, avars, bvars, puts, wire>>

\* the tool's future resolves before the timeout is observed
ToolCompletes(h) ==
    /\ hpc[h] = "executing"
    /\ hcall[h].impl = "AsyncTool"
    /\ \E out \in AsyncOutcomes :
           Deliver(h, [hcall[h] EXCEPT !.work = "completed"], out)
    /\ UNCHANGED <<tools, hreq, rvars, hphase, rejection, wsvars, cvars, avars, bvars, puts, wire>>

\* tokio::time::timeout returns Err(Elapsed) and drops the tool's future
TimeoutElapses(h) ==
    /\ hpc[h] = "executing"
    /\ hcall[h].elapsed >= hcall[h].timeout_duration
    /\ Deliver(h, [hcall[h] EXCEPT !.work = "dropped"],
               TimedOutError(CallName(h), hcall[h].timeout_duration))
    /\ UNCHANGED <<tools, hreq, rvars, hphase, rejection, wsvars, cvars, avars, bvars, puts, wire>>

LateCompletionDelivered(h) ==
    /\ hpc[h] = "responded"
    /\ hcall[h].work = "dropped"
    /\ hcall[h].impl = "AsyncTool"
    /\ \E out \in AsyncOutcomes :
           hcall' = [hcall EXCEPT ![h].work = "completed_late",
                                  ![h].outcomes = Append(@, out)]
    /\ UNCHANGED <<tools, lock, hpc, hreq, hresp, rvars, hphase, rejection, wsvars, cvars, avars, bvars, puts, wire>>

\* work the dropped future had handed off finishes; nobody awaits it
LateCompletion(h) ==
    /\ hpc[h] = "responded"
    /\ hcall[h].work = "dropped"
    /\ hcall[h].impl = "AsyncTool"
    /\ hcall' = [hcall EXCEPT ![h].work = "completed_late"]
    /\ UNCHANGED <<tools, lock, hpc, hreq, hresp, rvars, hphase, rejection, wsvars, cvars, avars, bvars, puts, wire>>

\* time passes for the running tool futures; the runtime wakes a timeout
\* whose deadline is reached before more time passes
Tick ==
    /\ \E h \in Handlers : hpc[h] = "executing"
    /\ \A h \in Handlers :
           hpc[h] = "executing" => hcall[h].elapsed < hcall[h].timeout_duration
    /\ hcall' = [h \in Handlers |->
                    IF hpc[h] = "executing"
                    THEN [hcall[h] EXCEPT !.elapsed = @ + TickSecs]
                    ELSE hcall[h]]
    /\ UNCHANGED <<tools, lock, hpc, hreq, hresp, rvars, hphase, rejection, wsvars, cvars, avars, bvars, puts, wire>>

(***************************************************************************)
(* Registration.  path "server" is McpServer::register_tool, which takes   *)
(* the write lock; path "registry" is ToolRegistry::register_tool called   *)
(* through a read guard of the shared registry (it takes &self).           *)
(***************************************************************************)
RegisterCall(r, name, impl, path) ==
    /\ rpc[r] = "idle"
    /\ rop' = [rop EXCEPT ![r] = [name |-> name, impl |-> impl, path |-> path]]
    /\ rres' = [rres EXCEPT ![r] = None]
    /\ rpc' = [rpc EXCEPT ![r] = "acquire"]
    /\ lock' = IF path = "server" THEN AcquireWrite(lock, R(r))
               ELSE AcquireRead(lock, R(r))
    /\ UNCHANGED <<tools, hvars, wsvars, cvars, avars, bvars, puts, wire>>

AlreadyRegistered(name) == Err(<<"Tool '", name, "' already registered">>)

\* register_tool: the contains_key test
RegisterCheck(r) ==
    /\ rpc[r] = "acquire"
    /\ Holds(lock, R(r))
    /\ IF contains_key(tools, rop[r].name)
       THEN /\ rres' = [rres EXCEPT ![r] = Some(AlreadyRegistered(rop[r].name))]
            /\ rpc' = [rpc EXCEPT ![r] = "done"]
            /\ lock' = Release(lock, R(r))
       ELSE /\ rpc' = [rpc EXCEPT ![r] = "insert"]
            /\ UNCHANGED <<rres, lock>>
    /\ UNCHANGED <<tools, rop, hvars, wsvars, cvars, avars, bvars, puts, wire>>

\* register_tool: the insert, Ok(()) and the drop of the guard
RegisterInsert(r) ==
    /\ rpc[r] = "insert"
    /\ tools' = insert(tools, rop[r].name, rop[r].impl)
    /\ rres' = [rres EXCEPT ![r] = Some(Ok("unit"))]
    /\ rpc' = [rpc EXCEPT ![r] = "done"]
    /\ lock' = Release(lock, R(r))
    /\ UNCHANGED <<rop, hvars, wsvars, cvars, avars, bvars, puts, wire>>

\* the caller has its Result and may register again
RegisterReturn(r) ==
    /\ rpc[r] = "done"
    /\ rpc' = [rpc EXCEPT ![r] = "idle"]
    /\ rop' = [rop EXCEPT ![r] = NoOp]
    /\ rres' = [rres EXCEPT ![r] = None]
    /\ UNCHANGED <<tools, lock, hvars, wsvars, cvars, avars, bvars, puts, wire>>

\* unregister_tool, called on the shared registry through a read guard (it
\* takes &self): the entry is removed and the caller learns whether there
\* was one
UnregisterTool(r, name) ==
    /\ rpc[r] = "idle"
    /\ lock.writer = None
    /\ lock.waiters = <<>>
    /\ tools' = remove(tools, name)
    /\ rop' = [rop EXCEPT ![r] = [name |-> name, impl |-> NoTool,
                                  path |-> "unregister"]]
    /\ rres' = [rres EXCEPT ![r] =
                   Some(Ok(IF contains_key(tools, name) THEN "true" ELSE "false"))]
    /\ rpc' = [rpc EXCEPT ![r] = "done"]
    /\ UNCHANGED <<lock, hvars, wsvars, cvars, avars, bvars, puts, wire>>

\* Option::flatten
Flatten(o) == IF o = None THEN None ELSE o[1]

\* get_tool that hands out the stored tool
get_tool_stored(m, name) ==
    IF contains_key(m, name) THEN Some(m[name]) ELSE None

\* get_tool: the entry found is mapped to None and the Option flattened
get_tool(m, name) ==
    Flatten(IF contains_key(m, name) THEN Some(None) ELSE None)

\* get_tool, called on the shared registry through a read guard
GetTool(r, name) ==
    /\ rpc[r] = "idle"
    /\ lock.writer = None
    /\ lock.waiters = <<>>
    /\ rop' = [rop EXCEPT ![r] = [name |-> name, impl |-> NoTool,
                                  path |-> "get_tool"]]
    /\ rres' = [rres EXCEPT ![r] = Some(get_tool(tools, name))]
    /\ rpc' = [rpc EXCEPT ![r] = "done"]
    /\ UNCHANGED <<tools, lock, hvars, wsvars, cvars, avars, bvars, puts, wire>>

(***************************************************************************)
(* Specifications.                                                         *)
(*   Spec     one connection sending every kind of request while tools are *)
(*            being registered;                                            *)
(*   SpecConc several connections calling tools side by side while a tool  *)
(*            is registered;                                               *)
(*   SpecReg  several callers registering one tool each, side by side;     *)
(*   SpecHttp, SpecWs  the two routes of the transport;                    *)
(*   SpecTools  one connection calling the built-in tools;                 *)
(*   SpecCache, SpecCacheStats  one caller of a TemplateCache.             *)
(***************************************************************************)
Next ==
    \/ \E request \in Requests : Receive(1, request)
    \/ Reply(1)
    \/ ToolsList(1)
    \/ ExecuteToolStart(1)
    \/ ToolCompletes(1)
    \/ TimeoutElapses(1)
    \/ LateCompletion(1)
    \/ Tick
    \/ \E pair \in RegPairs, path \in RegisterPaths :
           RegisterCall(1, pair[1], pair[2], path)
    \/ RegisterCheck(1)
    \/ RegisterInsert(1)
    \/ RegisterReturn(1)

Spec == Init /\ [][Next]_vars

NextConc ==
    \/ \E h \in Handlers, request \in ToolRequests : Receive(h, request)
    \/ \E h \in Handlers : Reply(h)
    \/ \E h \in Handlers : ToolsList(h)
    \/ \E h \in Handlers : ExecuteToolStart(h)
    \/ \E h \in Handlers : ToolCompletes(h)
    \/ \E h \in Handlers : TimeoutElapses(h)
    \/ \E h \in Handlers : LateCompletion(h)
    \/ Tick
    \/ \E pair \in RegPairs, path \in RegisterPaths :
           RegisterCall(1, pair[1], pair[2], path)
    \/ RegisterCheck(1)
    \/ RegisterInsert(1)
    \/ RegisterReturn(1)

SpecConc == Init /\ [][NextConc]_vars

NextReg ==
    \/ \E r \in Registrars, pair \in RegPairs, path \in RegisterPaths :
           RegisterCall(r, pair[1], pair[2], path)
    \/ \E r \in Registrars : RegisterCheck(r)
    \/ \E r \in Registrars : RegisterInsert(r)

SpecReg == Init /\ [][NextReg]_vars

\* the registry over its lifetime: callers register and unregister tools,
\* again and again
NextLife ==
    \/ \E r \in Registrars, pair \in RegPairs, path \in RegisterPaths :
           RegisterCall(r, pair[1], pair[2], path)
    \/ \E r \in Registrars : RegisterCheck(r)
    \/ \E r \in Registrars : RegisterInsert(r)
    \/ \E r \in Registrars : RegisterReturn(r)
    \/ \E r \in Registrars, name \in ToolNames : UnregisterTool(r, name)

SpecLife == Init /\ [][NextLife]_vars

\* several connections, each somewhere in its handshake, sending the same
\* kinds of request to a registry that does not change
NextSession ==
    \/ \E h \in Handlers, request \in SessionRequests : Receive(h, request)
    \/ \E h \in Handlers : Reply(h)
    \/ \E h \in Handlers : ToolsList(h)
    \/ \E h \in Handlers : ExecuteToolStart(h)

SpecSession == Init /\ [][NextSession]_vars

\* the HTTP endpoint: clients post bodies, well formed or not
NextHttp ==
    \/ \E h \in Handlers, body \in HttpBodies : HttpPost(h, body)
    \/ \E h \in Handlers : Reply(h)
    \/ \E h \in Handlers : ToolsList(h)
    \/ \E h \in Handlers : ExecuteToolStart(h)

SpecHttp == Init /\ [][NextHttp]_vars

\* one connection calling the built-in tools
NextTools ==
    \/ \E request \in BuiltinCallRequests : Receive(1, request)
    \/ Reply(1)
    \/ ExecuteToolStart(1)

SpecTools == Init /\ [][NextTools]_vars

\* one caller of a TemplateCache
NextCache ==
    \/ \E k \in CacheKeys : CacheGet(k)
    \/ \E k \in CacheKeys, c \in CacheContents :
           CachePut(k, c)
    \/ \E k \in CacheKeys : CacheContains(k)
    \/ \E k \in CacheKeys : CacheRemove(k)
    \/ CacheClear

SpecCache == Init /\ [][NextCache]_vars

\* a caller that only puts and gets
NextCacheStats ==
    \/ \E k \in CacheKeys : CacheGet(k)
    \/ \E k \in CacheKeys, c \in CacheContents : CachePut(k, c)

SpecCacheStats == Init /\ [][NextCacheStats]_vars

\* several callers putting into one cache
NextCachePuts ==
    \/ \E p \in Putters, k \in CacheKeys, c \in CacheContents : PutCall(p, k, c)
    \/ \E p \in Putters : PutCheck(p)
    \/ \E p \in Putters : PutInsert(p)
    \/ \E p \in Putters : PutReturn(p)

SpecCachePuts == Init /\ [][NextCachePuts]_vars

\* one connection listing and calling tools while tools are registered
\* under keys of the caller's choice
NextAlias ==
    \/ \E request \in ToolRequests : Receive(1, request)
    \/ Reply(1)
    \/ ToolsList(1)
    \/ ExecuteToolStart(1)
    \/ \E pair \in AliasPairs, path \in RegisterPaths :
           RegisterCall(1, pair[1], pair[2], path)
    \/ RegisterCheck(1)
    \/ RegisterInsert(1)
    \/ RegisterReturn(1)

SpecAlias == Init /\ [][NextAlias]_vars

\* the built-in tools are called while tools are looked up and registered
NextLookup ==
    \/ \E request \in {McpRequest(IdNumber(7), "tools/call",
                                  Some(CallParams("echo", Some(TextHi)))),
                       McpRequest(IdNumber(7), "tools/call",
                                  Some(CallParams("calculate", Some(ExprAdd))))} :
           Receive(1, request)
    \/ Reply(1)
    \/ ExecuteToolStart(1)
    \/ \E name \in ToolNames : GetTool(1, name)
    \/ \E pair \in RegPairs, path \in RegisterPaths :
           RegisterCall(1, pair[1], pair[2], path)
    \/ RegisterCheck(1)
    \/ RegisterInsert(1)
    \/ RegisterReturn(1)

SpecLookup == Init /\ [][NextLookup]_vars

\* one owner of an aggregate
NextAggregate ==
    \/ increment_version
    \/ \E event \in DomainEvents : add_event(event)
    \/ mark_events_as_committed
    \/ get_all_events
    \/ \E valid \in BOOLEAN : validate_aggregate_state(valid)
    \/ \E expected_version \in 0..MaxVersion : check_concurrency(expected_version)

SpecAggregate == Init /\ [][NextAggregate]_vars

\* messages written by one side and read by the other
NextWire ==
    \/ \E response \in WireResponses : serialize_response(response)
    \/ ClientReadsResponse
    \/ \E id \in WireIds, method \in {"ping", "tools/call"},
          params \in {None} \cup {Some(v) : v \in WireValues} :
           ClientWritesRequest(McpRequest(id, method, params))
    \/ parse_request

SpecWire == Init /\ [][NextWire]_vars

\* one owner of a builder
NextBuilder ==
    \/ \E config \in {"config"} : with_config(config)
    \/ \E environment \in Environments : with_environment(environment)
    \/ \E tool \in CustomTools : with_tool(tool)
    \/ \E resource \in CustomResources : with_resource(resource)
    \/ \E prompt \in CustomPrompts : with_prompt(prompt)
    \/ build

SpecBuilder == Init /\ [][NextBuilder]_vars

\* the WebSocket endpoint
NextWs ==
    \/ \E c \in WsClients, frames \in FrameSeqs : handle_websocket_upgrade(c, frames)
    \/ \E c \in WsClients : WsClientLeaves(c)

SpecWs == Init /\ [][NextWs]_vars

\* one connection calling tools while a tool is registered, under what the
\* runtime's timer guarantees: time passes, and a timeout whose deadline is
\* reached is woken and polled; nothing obliges a client to send, a caller
\* to register or a tool to finish
NextLive ==
    \/ \E request \in LiveRequests : Receive(1, request)
    \/ Reply(1)
    \/ ToolsList(1)
    \/ ExecuteToolStart(1)
    \/ ToolCompletes(1)
    \/ TimeoutElapses(1)
    \/ Tick
    \/ \E pair \in RegPairs : RegisterCall(1, pair[1], pair[2], "server")
    \/ RegisterCheck(1)
    \/ RegisterInsert(1)
    \/ RegisterReturn(1)

Fairness ==
    /\ WF_vars(Tick)
    /\ WF_vars(TimeoutElapses(1))

SpecLive == Init /\ [][NextLive]_vars /\ Fairness

(***************************************************************************)
(* Properties.                                                             *)
(***************************************************************************)
\* C1: handle_request returns a Response for every request, whatever the
\* method, the shape of params and the tool outcome (success, error of the
\* tool, validation rejection, timeout): no handler ends in a fault, and a
\* handler has returned exactly when it holds a Response.
C1_AlwaysAResponse ==
    \A h \in Handlers :
        /\ hpc[h] # "faulted"
        /\ (hpc[h] = "responded") = (hresp[h] # None)
        /\ hpc[h] \in {"idle", "acquire", "executing", "responded"}

\* a tools/call that timed out was answered
C1_Witness ==
    \E h \in Handlers :
        /\ hpc[h] = "responded"
        /\ hreq[h].method = "tools/call"
        /\ hcall[h].work = "dropped"
        /\ hresp[h] # None

\* C2: every Response has exactly one of result and error: never both set
\* and never both absent.
C2_ResultXorError ==
    \A h \in Handlers :
        hresp[h] # None =>
            (hresp[h][1].result = None) # (hresp[h][1].error = None)

\* an error Response to a method that is not known
C2_Witness ==
    \E h \in Handlers :
        /\ hresp[h] # None
        /\ hreq[h].method = "unknown/method"
        /\ hresp[h][1].error # None
        /\ hresp[h][1].result = None

\* C3: the Response to a Request with a non-null id carries the identical
\* id, for every method and for success and error alike.
C3_IdEcho ==
    \A h \in Handlers :
        (hresp[h] # None /\ hreq[h].id.kind # "Null") =>
            hresp[h][1].id = hreq[h].id

\* an error Response to a tools/call with a string id
C3_Witness ==
    \E h \in Handlers :
        /\ hresp[h] # None
        /\ hreq[h].id = IdString("req-a")
        /\ hreq[h].method = "tools/call"
        /\ hresp[h][1].error # None
        /\ hresp[h][1].id = IdString("req-a")

\* C4: register_tool under a name that is registered fails with the
\* "already registered" error, and the registry is as it was: the map, the
\* listing and the tool count are unchanged, so the first tool's definition
\* is still listed.
C4_DuplicateRejected ==
    [][\A r \in Registrars :
          (/\ rpc[r] = "acquire"
           /\ rpc'[r] # "acquire"
           /\ tools[rop[r].name] # NoTool) =>
              /\ rres'[r] = Some(AlreadyRegistered(rop[r].name))
              /\ rpc'[r] = "done"
              /\ tools' = tools
              /\ list_tools(tools') = list_tools(tools)
              /\ tool_count(tools') = tool_count(tools)
              /\ \E i \in 1..Len(list_tools(tools')) :
                     list_tools(tools')[i] = tool_def(tools[rop[r].name])]_vars

\* a second tool offered under "slow" was refused and the first one stayed
C4_Witness ==
    \E r \in Registrars :
        /\ rpc[r] = "done"
        /\ rop[r].name = "slow"
        /\ rop[r].impl = "NeverTool"
        /\ rres[r] = Some(AlreadyRegistered("slow"))
        /\ tools["slow"] = "AsyncTool"

\* C5: execute_tool goes in a fixed order: no tool under the name gives
\* not-found, whatever the arguments; otherwise validate_args is asked and a
\* rejection is the outcome, the tool's execute not being invoked; execute is
\* invoked only when the tool exists and validation has passed.
C5_ExecuteOrder ==
    /\ [](\A h \in Handlers :
             hcall[h].invoked =>
                 (hcall[h].validated = "ok" /\ hcall[h].impl # NoTool))
    /\ [][\A h \in Handlers :
             (/\ hpc[h] = "acquire"
              /\ hpc'[h] # "acquire"
              /\ hreq[h].method = "tools/call") =>
                 LET name == CallName(h)
                     args == CallArgs(h)
                     impl == tools[name]
                     valid == IF impl = "EchoTool" THEN EchoValidateArgs(args)
                              ELSE IF impl = "CalculateTool"
                                   THEN CalculateValidateArgs(args)
                                   ELSE Ok("unit")
                 IN  /\ impl = NoTool =>
                            /\ hcall'[h].outcomes = <<NotFoundError(name)>>
                            /\ ~hcall'[h].invoked
                            /\ hcall'[h].validated = "none"
                     /\ (impl # NoTool /\ ~valid.ok) =>
                            /\ hcall'[h].outcomes = <<valid>>
                            /\ ~hcall'[h].invoked
                            /\ hcall'[h].validated = "rejected"
                     /\ (impl # NoTool /\ valid.ok) =>
                            /\ hcall'[h].invoked
                            /\ hcall'[h].validated = "ok"]_vars

\* echo was called with arguments it rejects and its execute did not run
C5_Witness ==
    \E h \in Handlers :
        /\ hpc[h] = "responded"
        /\ hcall[h].impl = "EchoTool"
        /\ hcall[h].validated = "rejected"
        /\ ~hcall[h].invoked
        /\ Len(hcall[h].outcomes) = 1
        /\ ~hcall[h].outcomes[1].ok

C7_ExactlyOneOutcome ==
    \A h \in Handlers :
        /\ Len(hcall[h].outcomes) <= 1
        /\ hpc[h] \in {"acquire", "executing"} => hcall[h].outcomes = <<>>
        /\ (/\ hpc[h] = "responded"
            /\ hreq[h].method = "tools/call"
            /\ CallRequestOf(hreq[h]).ok) =>
               /\ Len(hcall[h].outcomes) = 1
               /\ hresp[h] = Some(ToolsCallResponse(hreq[h], hcall[h].outcomes[1]))
        /\ hcall[h].work \in {"dropped", "completed_late"} =>
               hcall[h].outcomes =
                   <<TimedOutError(CallName(h), hcall[h].timeout_duration)>>
        /\ hcall[h].work = "completed" =>
               hcall[h].outcomes #
                   <<TimedOutError(CallName(h), hcall[h].timeout_duration)>>

\* the work of a timed-out call completed late and the caller still has
\* only the timeout error
C7_Witness ==
    \E h \in Handlers :
        /\ hcall[h].work = "completed_late"
        /\ Len(hcall[h].outcomes) = 1
        /\ ~hcall[h].outcomes[1].ok
        /\ hresp[h] # None
        /\ hresp[h][1].error # None

\* C8: when the callers that have started register pairwise distinct names,
\* under any interleaving no registration is lost (a caller that got Ok
\* finds its tool under its name), a name not yet registered is accepted,
\* every insertion adds one to the count and leaves the other entries as
\* they were, and the listing has one entry per registered name.
C8_ConcurrentDistinct ==
    /\ [](LET Started == {r \in Registrars : rpc[r] # "idle"}
          IN  (\A r1, r2 \in Started : r1 # r2 => rop[r1].name # rop[r2].name) =>
                  /\ \A r \in Started :
                         (rpc[r] = "done" /\ rres[r] = Some(Ok("unit"))) =>
                             tools[rop[r].name] = rop[r].impl
                  /\ Len(list_tools(tools)) = tool_count(tools)
                  /\ \A n \in ToolNames :
                         tools[n] # NoTool =>
                             Cardinality({i \in 1..Len(list_tools(tools)) :
                                 list_tools(tools)[i] = tool_def(tools[n])}) = 1)
    /\ [][LET Started == {r \in Registrars : rpc[r] # "idle"}
          IN  (\A r1, r2 \in Started : r1 # r2 => rop[r1].name # rop[r2].name) =>
                  \A r \in Started :
                      /\ (/\ rpc[r] = "acquire"
                          /\ rpc'[r] # "acquire"
                          /\ tools[rop[r].name] = NoTool) => rpc'[r] = "insert"
                      /\ (rpc[r] = "insert" /\ rpc'[r] = "done") =>
                             /\ rres'[r] = Some(Ok("unit"))
                             /\ tools'[rop[r].name] = rop[r].impl
                             /\ tool_count(tools') = tool_count(tools) + 1
                             /\ \A n \in ToolNames \ {rop[r].name} :
                                    tools'[n] = tools[n]]_vars

\* every caller registered a name of its own and all of them are there
C8_Witness ==
    /\ \A r \in Registrars : rpc[r] = "done" /\ rres[r] = Some(Ok("unit"))
    /\ \A r1, r2 \in Registrars : r1 # r2 => rop[r1].name # rop[r2].name
    /\ \E r \in Registrars : rop[r].path = "registry"
    /\ tool_count(tools) >= NumRegistrars
    /\ \A r \in Registrars : tools[rop[r].name] = rop[r].impl

\* C9: a handler that wants to start a tool execution or answer tools/list
\* never waits while a tool execution is in flight.
C9_NoWaitForExecution ==
    \A h \in Handlers :
        (hpc[h] = "acquire" /\ H(h) \notin lock.readers) =>
            ~(\E g \in Handlers : hpc[g] = "executing")

\* C10: a register call never waits while a tool execution is in flight,
\* and a handler waits for the registry only while a registration holds it.
C10_RegisterNeverWaitsForExecution ==
    /\ \A r \in Registrars :
           (rpc[r] = "acquire" /\ ~Holds(lock, R(r))) =>
               ~(\E h \in Handlers : hpc[h] = "executing")
    /\ \A h \in Handlers :
           (hpc[h] = "acquire" /\ H(h) \notin lock.readers) =>
               lock.writer # None

C12_RegisteredToolImmutable ==
    [][\A n \in ToolNames : tools[n] # NoTool => tools'[n] = tools[n]]_vars

\* C13: a tools/call whose name is not in the registry at the lookup is
\* answered with an error Response of code -32603 whose message ends in
\* "' not found" after the name, and no tool is validated or executed.
C13_UnknownToolCall ==
    [][\A h \in Handlers :
          (/\ hpc[h] = "acquire"
           /\ hpc'[h] # "acquire"
           /\ hreq[h].method = "tools/call"
           /\ tools[CallName(h)] = NoTool) =>
              /\ hpc'[h] = "responded"
              /\ hresp'[h] # None
              /\ hresp'[h][1].result = None
              /\ hresp'[h][1].error # None
              /\ hresp'[h][1].error[1].code = -32603
              /\ hresp'[h][1].error[1].message =
                     <<"Tool execution failed: ", "Tool '", CallName(h), "' not found">>
              /\ hcall'[h].validated = "none"
              /\ ~hcall'[h].invoked
              /\ hcall'[h].impl = NoTool]_vars

\* "calculate" was called with a string id before it was registered
C13_Witness ==
    \E h \in Handlers :
        /\ hpc[h] = "responded"
        /\ hreq[h].method = "tools/call"
        /\ hreq[h].id = IdString("req-a")
        /\ hcall[h].outcomes = <<NotFoundError("calculate")>>
        /\ hresp[h][1].error # None
        /\ hresp[h][1].error[1].code = INTERNAL_ERROR

\* C14: a tools/call whose arguments the tool's validate_args rejected is
\* answered with an invalid-params error, code -32602.
C14_ValidationIsInvalidParams ==
    \A h \in Handlers :
        (hpc[h] = "responded" /\ hcall[h].validated = "rejected") =>
            /\ hresp[h][1].error # None
            /\ hresp[h][1].error[1].code = -32602

\* C15: a tools/call that failed by timeout or by an error of the tool's
\* execute is answered with an internal-error, code -32603, whose message
\* names the tool; the message of a timeout also states the bound.
C15_ExecutionFailureNamesTool ==
    \A h \in Handlers :
        (/\ hpc[h] = "responded"
         /\ hcall[h].invoked
         /\ Len(hcall[h].outcomes) = 1
         /\ ~hcall[h].outcomes[1].ok) =>
            LET message == hresp[h][1].error[1].message
            IN  /\ hresp[h][1].error[1].code = -32603
                /\ \E i \in 1..Len(message) : message[i] = CallName(h)
                /\ hcall[h].work \in {"dropped", "completed_late"} =>
                       \E i \in 1..Len(message) :
                           SubSeq(message, i, Len(message)) =
                               NatChars(hcall[h].timeout_duration) \o <<"s">>

\* C16: a request whose method is not, to the letter, one of the nine
\* method names is answered with a method-not-found error, code -32601,
\* whose message names the method as it was sent, and no tool is looked up,
\* validated or executed for it.
C16_UnknownMethod ==
    \A h \in Handlers :
        (/\ hpc[h] # "idle"
         /\ hreq[h].method \notin
                {"initialize", "initialized", "tools/list", "tools/call",
                 "resources/list", "resources/read", "prompts/list",
                 "prompts/get", "ping"}) =>
            /\ hpc[h] = "responded"
            /\ hresp[h] # None
            /\ hresp[h][1].result = None
            /\ hresp[h][1].error # None
            /\ hresp[h][1].error[1].code = -32601
            /\ hresp[h][1].error[1].message =
                   <<"Method '", hreq[h].method, "' not found">>
            /\ hcall[h] = NoCall
            /\ H(h) \notin lock.readers
            /\ ~IsWaiting(lock, H(h))

\* "tools/calls" with the parameters of a good call of echo, echo being
\* registered, was refused
C16_Witness ==
    \E h \in Handlers :
        /\ hpc[h] = "responded"
        /\ hreq[h].method = "tools/calls"
        /\ hreq[h].params = Some(CallParams("echo", Some(TextHi)))
        /\ tools["echo"] = "EchoTool"
        /\ hresp[h][1].error # None
        /\ hresp[h][1].error[1].code = METHOD_NOT_FOUND

\* C17: an initialize request that decodes and whose protocol_version is
\* not "2024-11-05" is answered with an invalid-request error, code -32600;
\* one with "2024-11-05" is answered with a success Response that carries
\* that version, the server's capabilities and the server's info.
C17_InitializeVersion ==
    \A h \in Handlers :
        (/\ hpc[h] # "idle"
         /\ hreq[h].method = "initialize"
         /\ hreq[h].params # None
         /\ hreq[h].params[1].kind = "init") =>
            /\ hpc[h] = "responded"
            /\ hresp[h] # None
            /\ IF hreq[h].params[1].version # "2024-11-05"
               THEN /\ hresp[h][1].result = None
                    /\ hresp[h][1].error # None
                    /\ hresp[h][1].error[1].code = -32600
               ELSE /\ hresp[h][1].error = None
                    /\ hresp[h][1].result # None
                    /\ hresp[h][1].result[1].protocol_version = "2024-11-05"
                    /\ hresp[h][1].result[1].capabilities = ServerCapabilitiesValue
                    /\ hresp[h][1].result[1].server_info = ServerInfoValue

\* initialize with protocol_version "1.0.0" was refused
C17_Witness ==
    \E h \in Handlers :
        /\ hpc[h] = "responded"
        /\ hreq[h].method = "initialize"
        /\ hreq[h].params = Some(InitParams("1.0.0"))
        /\ hresp[h][1].error # None
        /\ hresp[h][1].error[1].code = INVALID_REQUEST
        /\ hresp[h][1].result = None

\* C18: dispatch is stateless: with the registry unchanged, two connections
\* that have been answered the same request have been given the same
\* Response, whatever each of them sent before (nothing, initialize, or
\* initialize and initialized) and whatever the other connections did.
C18_StatelessDispatch ==
    \A h, g \in Handlers :
        (/\ hpc[h] = "responded"
         /\ hpc[g] = "responded"
         /\ hreq[h] = hreq[g]) =>
            hresp[h] = hresp[g]

\* tools/list was answered alike on a connection that never sent
\* initialize and on one that had completed the handshake
C18_Witness ==
    \E h, g \in Handlers :
        /\ hphase[h] = "new"
        /\ hphase[g] = "initialized"
        /\ hpc[h] = "responded"
        /\ hpc[g] = "responded"
        /\ hreq[h].method = "tools/list"
        /\ hreq[g] = hreq[h]
        /\ hresp[h] = hresp[g]
        /\ hresp[h][1].result # None

\* C19: a request with the Null id is handled like any other: it is never
\* left without a handler state that leads to a Response, and the Response
\* it gets carries the Null id; initialized and ping are answered at once,
\* whatever their id and params, with a success Response whose result is
\* the empty object.
C19_NullIdAnswered ==
    \A h \in Handlers :
        /\ (hpc[h] # "idle" /\ hreq[h].id.kind = "Null") =>
               /\ hpc[h] \in {"acquire", "executing", "responded"}
               /\ hpc[h] = "responded" =>
                      (hresp[h] # None /\ hresp[h][1].id = IdNull)
               /\ ~NeedsRegistry(hreq[h]) => hpc[h] = "responded"
        /\ (hpc[h] # "idle" /\ hreq[h].method \in {"initialized", "ping"}) =>
               /\ hpc[h] = "responded"
               /\ hresp[h] # None
               /\ hresp[h][1].id = hreq[h].id
               /\ hresp[h][1].result = Some([tag |-> "object"])
               /\ hresp[h][1].error = None

\* initialized, sent as a notification, got a Response with the Null id
C19_Witness ==
    \E h \in Handlers :
        /\ hpc[h] = "responded"
        /\ hreq[h].method = "initialized"
        /\ hreq[h].id = IdNull
        /\ hresp[h] = Some(ResponseSuccess(IdNull, EmptyObject))

\* C20: the success Response to tools/list carries, as a set, exactly the
\* definitions of the tools registered when the list is taken, one entry
\* per registered name and nothing else, and no next cursor; when echo is
\* the only tool registered it carries one entry, named "echo", with the
\* schema echo declares.
C20_ToolsListExact ==
    [][\A h \in Handlers :
          (/\ hpc[h] = "acquire"
           /\ hpc'[h] # "acquire"
           /\ hreq[h].method = "tools/list") =>
              LET registered == {n \in ToolNames : tools[n] # NoTool}
              IN  /\ hresp'[h] # None
                  /\ hresp'[h][1].error = None
                  /\ hresp'[h][1].result # None
                  /\ hresp'[h][1].result[1].next_cursor = None
                  /\ LET listed == hresp'[h][1].result[1].tools
                     IN  /\ {listed[i] : i \in 1..Len(listed)} =
                                {tool_def(tools[n]) : n \in registered}
                         /\ Len(listed) = Cardinality(registered)
                         /\ (registered = {"echo"} /\ tools["echo"] = "EchoTool") =>
                                listed =
                                    <<[name |-> "echo",
                                       description |-> "Echo back the input text",
                                       properties |-> {<<"text", "string">>,
                                                       <<"uppercase", "boolean">>},
                                       required |-> {"text"},
                                       output_schema |-> None,
                                       metadata |-> None]>>]_vars

\* tools/list was answered with the one entry "echo" while echo was the
\* only tool registered
C20_Witness ==
    \E h \in Handlers :
        /\ hpc[h] = "responded"
        /\ hreq[h].method = "tools/list"
        /\ {n \in ToolNames : tools[n] # NoTool} = {"echo"}
        /\ hresp[h][1].result # None
        /\ Len(hresp[h][1].result[1].tools) = 1
        /\ hresp[h][1].result[1].tools[1].name = "echo"

\* C21: a POST to /mcp whose body is malformed JSON or no Request is
\* answered with a Response in the JSON-RPC envelope, with the Null id and
\* the parse-error code -32700, and not with a bare HTTP failure.
C21_HttpParseErrorResponse ==
    \A h \in Handlers :
        /\ rejection[h] = None
        /\ hpc[h] = "rejected" =>
               /\ hresp[h] # None
               /\ hresp[h][1].id = IdNull
               /\ hresp[h][1].error # None
               /\ hresp[h][1].error[1].code = -32700

\* C22: a malformed text frame on /mcp/ws is answered with an Error
\* Response that has the Null id and code -32700, and the connection stays
\* open for the frames that follow.
C22_WsParseErrorKeepsOpen ==
    \A c \in WsClients :
        (/\ wsconn[c] # "none"
         /\ \E i \in DOMAIN wsframes[c] : wsframes[c][i].kind = "malformed") =>
            /\ wsconn[c] = "open"
            /\ \E j \in DOMAIN wsreplies[c] :
                   wsreplies[c][j] = ResponseError(IdNull, parse_error(<<"Invalid JSON">>))

\* C23: the messages of one WebSocket connection are handled one after the
\* other: one Response per Request, in the order of the Requests.
C23_WsSequential ==
    \A c \in WsClients :
        (/\ wsconn[c] # "none"
         /\ \A i \in DOMAIN wsframes[c] : wsframes[c][i].kind = "request") =>
            /\ Len(wsreplies[c]) = Len(wsframes[c])
            /\ \A i \in DOMAIN wsframes[c] :
                   wsreplies[c][i] = handle_ping(wsframes[c][i].request)

\* C24: resources/read and prompts/get are answered with a method-not-found
\* error, code -32601, and no result, whatever the params of the request and
\* whatever the server holds.
C24_ReadAndGetNotFound ==
    \A h \in Handlers :
        (/\ hpc[h] # "idle"
         /\ hreq[h].method \in {"resources/read", "prompts/get"}) =>
            /\ hpc[h] = "responded"
            /\ hresp[h] # None
            /\ hresp[h][1].id = hreq[h].id
            /\ hresp[h][1].result = None
            /\ hresp[h][1].error # None
            /\ hresp[h][1].error[1].code = -32601

C24_Witness ==
    \E h \in Handlers :
        /\ hpc[h] = "responded"
        /\ hreq[h].method = "resources/read"
        /\ hreq[h].params = Some(ObjectParams)
        /\ tools = BuiltinRegistry
        /\ hresp[h][1].error # None
        /\ hresp[h][1].error[1].code = -32601

C26_EchoMissingText ==
    \A h \in Handlers :
        (/\ hpc[h] = "responded"
         /\ hreq[h].method = "tools/call"
         /\ CallRequestOf(hreq[h]).ok
         /\ CallName(h) = "echo"
         /\ tools = BuiltinRegistry
         /\ "text" \notin DOMAIN CallArgs(h)) =>
            /\ hresp[h][1].result = None
            /\ hresp[h][1].error # None
            /\ hresp[h][1].error[1].code \in {-32602, -32603}
            /\ \E i \in DOMAIN hresp[h][1].error[1].message :
                   hresp[h][1].error[1].message[i] = "Missing required 'text' argument"
            /\ ~hcall[h].invoked

C26_Witness ==
    \E h \in Handlers :
        /\ hpc[h] = "responded"
        /\ hreq[h].method = "tools/call"
        /\ hreq[h].params = Some(CallParams("echo", Some("uppercase" :> JBool(TRUE))))
        /\ tools = BuiltinRegistry
        /\ hresp[h][1].error # None
        /\ hresp[h][1].error[1].code = -32603
        /\ ~hcall[h].invoked

\* C27: for one operator between two numeric operands (the right one not
\* zero for /), the registered calculate tool answers with the arithmetic
\* value of the expression, to two decimal places, as the text of its one
\* content block: 1 + 2 yields 3, 5 - 3 yields 2.
C27_CalculateValue ==
    \A h \in Handlers :
        LET e == CallArgs(h)["expression"].s
            expected ==
                 CASE e = <<"1", " ", "+", " ", "2">> ->
                      {<<"R", "e", "s", "u", "l", "t", ":", " ", "3">>,
                       <<"R", "e", "s", "u", "l", "t", ":", " ", "3", ".", "0">>,
                       <<"R", "e", "s", "u", "l", "t", ":", " ", "3", ".", "0", "0">>}
                 [] e = <<"5", " ", "-", " ", "3">> ->
                      {<<"R", "e", "s", "u", "l", "t", ":", " ", "2">>,
                       <<"R", "e", "s", "u", "l", "t", ":", " ", "2", ".", "0">>,
                       <<"R", "e", "s", "u", "l", "t", ":", " ", "2", ".", "0", "0">>}
                 [] e = <<"0", ".", "5", " ", "+", " ", "0", ".", "2", "5">> ->
                      {<<"R", "e", "s", "u", "l", "t", ":", " ", "0", ".", "7", "5">>}
                 [] e = <<"2", " ", "*", " ", "3">> ->
                      {<<"R", "e", "s", "u", "l", "t", ":", " ", "6">>,
                       <<"R", "e", "s", "u", "l", "t", ":", " ", "6", ".", "0">>,
                       <<"R", "e", "s", "u", "l", "t", ":", " ", "6", ".", "0", "0">>}
                 [] e = <<"1", ".", "5", " ", "*", " ", "1", ".", "5">> ->
                      {<<"R", "e", "s", "u", "l", "t", ":", " ", "2", ".", "2", "5">>}
                 [] e = <<"-", "2", " ", "*", " ", "-", "3">> ->
                      {<<"R", "e", "s", "u", "l", "t", ":", " ", "6">>,
                       <<"R", "e", "s", "u", "l", "t", ":", " ", "6", ".", "0">>,
                       <<"R", "e", "s", "u", "l", "t", ":", " ", "6", ".", "0", "0">>}
                 [] e = <<"6", " ", "/", " ", "3">> ->
                      {<<"R", "e", "s", "u", "l", "t", ":", " ", "2">>,
                       <<"R", "e", "s", "u", "l", "t", ":", " ", "2", ".", "0">>,
                       <<"R", "e", "s", "u", "l", "t", ":", " ", "2", ".", "0", "0">>}
                 [] e = <<"7", " ", "/", " ", "2">> ->
                      {<<"R", "e", "s", "u", "l", "t", ":", " ", "3", ".", "5">>,
                       <<"R", "e", "s", "u", "l", "t", ":", " ", "3", ".", "5", "0">>}
                 [] e = <<"1", " ", "/", " ", "3">> ->
                      {<<"R", "e", "s", "u", "l", "t", ":", " ", "0", ".", "3", "3">>}
        IN  (/\ hpc[h] = "responded"
             /\ hreq[h].method = "tools/call"
             /\ CallRequestOf(hreq[h]).ok
             /\ CallName(h) = "calculate"
             /\ tools = BuiltinRegistry
             /\ DOMAIN CallArgs(h) = {"expression"}
             /\ CallArgs(h)["expression"].t = "string"
             /\ e \in BinaryExpressions) =>
                /\ hresp[h][1].error = None
                /\ hresp[h][1].result # None
                /\ Len(hresp[h][1].result[1].content) = 1
                /\ hresp[h][1].result[1].content[1].type = "text"
                /\ hresp[h][1].result[1].content[1].text \in expected

\* C28: the registered calculate tool answers with an error and no result
\* for every expression with a non-numeric operand, a missing operand or
\* more than one operator, and for every division by zero.
C28_CalculateFails ==
    \A h \in Handlers :
        (/\ hpc[h] = "responded"
         /\ hreq[h].method = "tools/call"
         /\ CallRequestOf(hreq[h]).ok
         /\ CallName(h) = "calculate"
         /\ tools = BuiltinRegistry
         /\ DOMAIN CallArgs(h) = {"expression"}
         /\ CallArgs(h)["expression"].t = "string"
         /\ CallArgs(h)["expression"].s \in
                NonNumericOperand \cup MissingOperand \cup SeveralOperators
                    \cup ZeroDivisions) =>
            /\ hresp[h][1].result = None
            /\ hresp[h][1].error # None

\* C29: a key whose last put returned Ok, with no remove of it and no clear
\* since, is present with the content of that put, also when the put found
\* the cache holding max_entries entries; a key removed, cleared or never
\* put is absent; and get returns the content so stored.
C29_CacheHoldsWhatWasPut ==
    /\ \A k \in CacheKeys :
           /\ hstored[k] # None => cache[k] = hstored[k]
           /\ hstored[k] = None => cache[k] = None
    /\ clast.op = "get" => clast.result = hstored[clast.key]

\* C30: after any sequence of put and get calls, cache_hits is the number
\* of get calls that found their key, cache_misses the number that did not,
\* and total_entries the number of keys stored.
C30_CacheStatsCountGets ==
    /\ stats.cache_hits = hgets.found
    /\ stats.cache_misses = hgets.missed
    /\ stats.total_entries = CacheLen(cache)

\* C31: after any sequence of add_event, mark_events_as_committed and
\* increment_version, the committed events followed by the uncommitted ones
\* are the events added, in the order they were added, none lost and none
\* twice; mark_events_as_committed leaves the uncommitted list empty;
\* get_all_events returns that sequence; and the version is the number of
\* increments made since the initial 0.
C31_EventsKeptInOrder ==
    /\ committed_events \o uncommitted_events = hevents
    /\ alast.op = "mark_events_as_committed" =>
           uncommitted_events = <<>> /\ committed_events = hevents
    /\ alast.op = "get_all_events" => alast.result = Some(hevents)
    /\ version = hincrements

C31_Witness ==
    /\ alast.op = "get_all_events"
    /\ committed_events = <<"e1", "e2">>
    /\ uncommitted_events = <<"e1">>
    /\ alast.result = Some(<<"e1", "e2", "e1">>)
    /\ version = 2

\* C32: validate_aggregate_state succeeds for a freshly created aggregate,
\* at version 0, whose own validate() succeeds, and check_concurrency
\* succeeds exactly when the expected version is the aggregate's version.
C32_FreshAggregateIsValid ==
    /\ (alast.op = "validate_aggregate_state" /\ alast.arg = 1 /\ version = 0) =>
           alast.result[1].ok
    /\ alast.op = "check_concurrency" =>
           (alast.result[1].ok <=> alast.arg = version)

\* C33: when two callers register a tool under the same name, not
\* registered before, at the same time, exactly one of them gets Ok and the
\* other the "already registered" error, under every interleaving, and the
\* tool stored under the name is the one of the caller that got Ok.
C33_ConcurrentSameName ==
    \A r1, r2 \in Registrars :
        (/\ r1 # r2
         /\ rpc[r1] = "done" /\ rpc[r2] = "done"
         /\ rop[r1].name = "slow" /\ rop[r2].name = "slow") =>
            \E won, lost \in {r1, r2} :
                /\ won # lost
                /\ rres[won] = Some(Ok("unit"))
                /\ rres[lost] = Some(AlreadyRegistered("slow"))
                /\ tools["slow"] = rop[won].impl

\* C34: in every reachable state of the registry, every name that
\* tools/list returns can be called: execute_tool with the name of a listed
\* definition does not answer not-found.
C34_ListedToolsCallable ==
    \A i \in 1..Len(list_tools(tools)) :
        /\ list_tools(tools)[i].name \in ToolNames
        /\ execute_tool_begin(tools, list_tools(tools)[i].name, <<>>).result
               # Some(NotFoundError(list_tools(tools)[i].name))

(***************************************************************************)
(* Parameters that are absent or cannot be decoded.                        *)
(***************************************************************************)
\* the params of hreq[h] are absent or are not the struct its method decodes
ParamsUnusable(h) ==
    \/ hreq[h].params = None
    \/ hreq[h].method = "initialize" /\ hreq[h].params[1].kind # "init"
    \/ hreq[h].method = "tools/call" /\ hreq[h].params[1].kind # "call"

\* C35: an initialize or tools/call request whose params are absent or do not
\* decode is answered with the invalid-params error -32602 and no tool is
\* validated or executed for it; a tools/call without arguments hands the
\* tool the empty map
C35_UndecodableParamsInvalid ==
    \A h \in Handlers :
        /\ (/\ hpc[h] # "idle"
            /\ hreq[h].method \in {"initialize", "tools/call"}
            /\ ParamsUnusable(h)) =>
               /\ hpc[h] = "responded"
               /\ hresp[h] # None
               /\ hresp[h][1].result = None
               /\ hresp[h][1].error # None
               /\ hresp[h][1].error[1].code = -32602
               /\ hcall[h] = NoCall
        /\ (/\ hreq[h].method = "tools/call"
            /\ ~ParamsUnusable(h)
            /\ hreq[h].params[1].arguments = None
            /\ hcall[h].impl # NoTool) =>
               hcall[h].args = Some(<<>>)

C35_Witness ==
    /\ hpc[1] = "responded"
    /\ hreq[1].method = "initialize"
    /\ hreq[1].params = Some(InitParamsWithout("capabilities"))
    /\ hresp[1] = Some(ResponseError(hreq[1].id,
                      McpErrorNew(-32602,
                          <<"Invalid initialize request: ",
                            "missing field ", "capabilities">>)))
    /\ hcall[1] = NoCall

(***************************************************************************)
(* McpServerBuilder.                                                       *)
(***************************************************************************)
\* the names tools/list answers with on the built server
ListedNames(s) ==
    {list_tools(s.registry)[i].name : i \in 1..Len(list_tools(s.registry))}

\* C36: a tool added with with_tool is part of the built server and is listed
\* by tools/list next to echo and calculate; build fails when no
\* configuration was set
C36_BuilderToolsListed ==
    server # None =>
        /\ builder.config = None => ~server[1].ok
        /\ server[1].ok =>
               /\ {"echo", "calculate"} \subseteq ListedNames(server[1].val)
               /\ \A i \in 1..Len(builder.custom_tools) :
                      builder.custom_tools[i].name \in ListedNames(server[1].val)

(***************************************************************************)
(* Tool lookup.                                                            *)
(***************************************************************************)
\* C37: get_tool returns no tool for every name, also for a name that has_tool
\* reports as registered and whose tool runs when it is called
C37_GetToolReturnsNothing ==
    \A r \in Registrars :
        (rpc[r] = "done" /\ rop[r].path = "get_tool") => rres[r] = Some(None)

C37_Witness ==
    /\ rpc[1] = "done"
    /\ rop[1].path = "get_tool"
    /\ rop[1].name = "echo"
    /\ rres[1] = Some(None)
    /\ has_tool(tools, "echo")
    /\ hpc[1] = "responded"
    /\ hreq[1].params = Some(CallParams("echo", Some(TextHi)))
    /\ hcall[1].outcomes # <<>>
    /\ hcall[1].outcomes[1].ok
    /\ hresp[1][1].error = None

(***************************************************************************)
(* The wire format.                                                        *)
(***************************************************************************)
\* C38: what is decoded from the document written for a Response or for a
\* Request is the message that was written: same id variant, same result or
\* error, same method and params
C38_WireRoundTrips ==
    wire.got # None => wire.got = Some(Ok(wire.sent[1]))

(***************************************************************************)
(* TemplateCache under concurrent puts.                                    *)
(***************************************************************************)
\* C39: the cache never holds more than max_entries entries, whatever the
\* interleaving of the put calls
C39_CacheWithinMaxEntries == CacheLen(cache) <= MaxEntries

====
